---- MODULE Spec2Model ----
(***************************************************************************)
(* FreshB4: the freshness classification, the pantry summaries and the     *)
(* normalisation of the AI responses (GeminiService.validateAnalysisResult *)
(* and validateRecipesResult, PantryService.getFreshnessLevel,             *)
(* FoodCard.getStatusStyle, NotificationService.getNotificationData,       *)
(* PantryScreen.getPantryStats), the scheduling of the expiry              *)
(* notifications (NotificationService.scheduleExpiryNotifications as       *)
(* PantryScreen starts it on every snapshot), the fallback chains of       *)
(* GeminiService.analyzeFood and getRecipes with the keyword heuristic and *)
(* the built-in recipes, the analyses FoodScannerScreen starts, the writes *)
(* of PantryService to the document store with the expiry dates they      *)
(* give, and the generations RecipesScreen starts.                         *)
(*                                                                         *)
(* JavaScript values are records [t, n, s, a, f]: t is the type tag, n the *)
(* value of a number (or 1/0 of a boolean), s the characters of a string,  *)
(* a the elements of an array and f the own properties of an object.       *)
(* A string is the sequence of its characters, so that parseInt and the    *)
(* template literals are computed and not assumed.                         *)
(***************************************************************************)
EXTENDS Integers, Sequences, FiniteSets

VARIABLES op, arg, ret, daysLeft, card, items, summary

(* PantryScreen and NotificationService with the notification collaborator: *)
(* pantry and notificationData are the screen's state (pantryItems and      *)
(* notificationData), dismissed whether the banner was dismissed since the  *)
(* last snapshot, snapshots the number of snapshots delivered, calls the    *)
(* calls of scheduleExpiryNotifications in the order they were started,     *)
(* permission the notification permission of the device, scheduled the      *)
(* requests pending at the collaborator and notificationIds the service's   *)
(* set of handles.                                                          *)
VARIABLES pantry, notificationData, dismissed, snapshots, calls, permission,
          scheduled, notificationIds

harnessVars == <<op, arg, ret, daysLeft, card, items, summary>>

notifyVars == <<pantry, notificationData, dismissed, snapshots, calls,
                permission, scheduled, notificationIds>>

(* FoodScannerScreen: showCamera, capturedImage, analysisResult and         *)
(* isAnalyzing are its state; captures are numbered from 1, capturedImage  *)
(* is the number of the captured image (0 for null), analysisResult the    *)
(* number of the capture whose analysis it holds (0 for null), analyses    *)
(* the analyzeFood requests in the order they were started.                *)
VARIABLES showCamera, capturedImage, analysisResult, isAnalyzing, analyses

(* The document store behind PantryService (docs) and the clock (now, in   *)
(* milliseconds).                                                          *)
VARIABLES docs, now

(* RecipesScreen: isGeneratingRecipes, refreshing and recipes are its      *)
(* state (recipes is the number of the generation whose batch is shown, 0  *)
(* for the initial empty list), timers the pending setTimeout callbacks of *)
(* onRefresh, generations the getRecipes requests in the order they were   *)
(* started.                                                                *)
VARIABLES isGeneratingRecipes, refreshing, recipes, timers, generations

scannerVars == <<showCamera, capturedImage, analysisResult, isAnalyzing,
                 analyses>>

storeVars == <<docs, now>>

recipesVars == <<isGeneratingRecipes, refreshing, recipes, timers,
                 generations>>

appVars == <<showCamera, capturedImage, analysisResult, isAnalyzing, analyses,
             docs, now,
             isGeneratingRecipes, refreshing, recipes, timers, generations>>

vars == <<op, arg, ret, daysLeft, card, items, summary,
          pantry, notificationData, dismissed, snapshots, calls, permission,
          scheduled, notificationIds,
          showCamera, capturedImage, analysisResult, isAnalyzing, analyses,
          docs, now,
          isGeneratingRecipes, refreshing, recipes, timers, generations>>

----------------------------------------------------------------------------
(* JavaScript values *)

NoProps == [k \in {} |-> 0]

Js(t) == [t |-> t, n |-> 0, s |-> <<>>, a |-> <<>>, f |-> NoProps]

JsUndefined == Js("undefined")

JsNull == Js("null")

JsNaN == Js("NaN")

JsBool(b) == [Js("boolean") EXCEPT !.n = IF b THEN 1 ELSE 0]

JsNum(n) == [Js("number") EXCEPT !.n = n]

JsStr(s) == [Js("string") EXCEPT !.s = s]

JsArr(a) == [Js("array") EXCEPT !.a = a]

JsObj(f) == [Js("object") EXCEPT !.f = f]

(* The character U+0060, which a TLA+ string cannot hold. *)
Backtick == "grave accent"

(* The string literals of the source, as character sequences. *)
Lit ==
  [ fresh |-> <<"f","r","e","s","h">>,
    ripe |-> <<"r","i","p","e">>,
    overripe |-> <<"o","v","e","r","r","i","p","e">>,
    spoiled |-> <<"s","p","o","i","l","e","d">>,
    noRecommendation |-> <<"N","o"," ","r","e","c","o","m","m","e","n","d","a","t","i","o","n"," ","a","v","a","i","l","a","b","l","e">>,
    unknownFood |-> <<"U","n","k","n","o","w","n"," ","F","o","o","d"," ","I","t","e","m">>,
    storeTip |-> <<"S","t","o","r","e"," ","i","n"," ","a","p","p","r","o","p","r","i","a","t","e"," ","c","o","n","d","i","t","i","o","n","s">>,
    noDetails |-> <<"N","o"," ","d","e","t","a","i","l","e","d"," ","a","n","a","l","y","s","i","s"," ","a","v","a","i","l","a","b","l","e">>,
    recipePrefix |-> <<"R","e","c","i","p","e"," ">>,
    delicious |-> <<"D","e","l","i","c","i","o","u","s"," ","r","e","c","i","p","e">>,
    cookTime |-> <<"3","0"," ","m","i","n","u","t","e","s">>,
    Easy |-> <<"E","a","s","y">>,
    Medium |-> <<"M","e","d","i","u","m">>,
    Hard |-> <<"H","a","r","d">>,
    high |-> <<"h","i","g","h">>,
    medium |-> <<"m","e","d","i","u","m">>,
    low |-> <<"l","o","w">>,
    recipesMessage |-> <<"H","e","r","e"," ","a","r","e"," ","y","o","u","r"," ","p","e","r","s","o","n","a","l","i","z","e","d"," ","r","e","c","i","p","e","s","!">>,
    Spoiled |-> <<"S","p","o","i","l","e","d">>,
    UseToday |-> <<"U","s","e"," ","T","o","d","a","y">>,
    daysLeft |-> <<" ","d","a","y","s"," ","l","e","f","t">>,
    spoiledMessage |-> <<" ","i","t","e","m","(","s",")"," ","h","a","v","e"," ","s","p","o","i","l","e","d"," ","a","n","d"," ","s","h","o","u","l","d"," ","b","e"," ","d","i","s","c","a","r","d","e","d">>,
    expiringMessage |-> <<" ","i","t","e","m","(","s",")"," ","e","x","p","i","r","e"," ","i","n"," ","3"," ","d","a","y","s"," ","o","r"," ","l","e","s","s">>,
    fenceOpen |-> <<Backtick,Backtick,Backtick,"j","s","o","n">>,
    fenceClose |-> <<Backtick,Backtick,Backtick>>,
    notSafe |-> <<"n","o","t"," ","s","a","f","e">>,
    discard |-> <<"d","i","s","c","a","r","d">>,
    moldy |-> <<"m","o","l","d","y">>,
    pastPrime |-> <<"p","a","s","t"," ","p","r","i","m","e">>,
    peak |-> <<"p","e","a","k">>,
    day |-> <<"d","a","y">>,
    ellipsis |-> <<".",".",".">>,
    mockRecommendation1 |-> <<"T","h","i","s"," ","i","t","e","m"," ","l","o","o","k","s"," ","f","r","e","s","h"," ","a","n","d"," ","s","a","f","e"," ","t","o"," ","e","a","t","."," ","S","t","o","r","e"," ","i","n"," ","a"," ","c","o","o","l",","," ","d","r","y"," ","p","l","a","c","e",".">>,
    mockFood1 |-> <<"A","p","p","l","e">>,
    mockTip1 |-> <<"K","e","e","p"," ","r","e","f","r","i","g","e","r","a","t","e","d"," ","f","o","r"," ","l","o","n","g","e","r"," ","f","r","e","s","h","n","e","s","s">>,
    mockDetails1 |-> <<"T","h","e"," ","a","p","p","l","e"," ","a","p","p","e","a","r","s"," ","t","o"," ","b","e"," ","i","n"," ","e","x","c","e","l","l","e","n","t"," ","c","o","n","d","i","t","i","o","n"," ","w","i","t","h"," ","n","o"," ","v","i","s","i","b","l","e"," ","s","i","g","n","s"," ","o","f"," ","b","r","o","w","n","i","n","g"," ","o","r"," ","s","o","f","t"," ","s","p","o","t","s","."," ","T","h","e"," ","s","k","i","n"," ","l","o","o","k","s"," ","v","i","b","r","a","n","t"," ","a","n","d"," ","t","h","e"," ","t","e","x","t","u","r","e"," ","a","p","p","e","a","r","s"," ","f","i","r","m",".">>,
    mockRecommendation2 |-> <<"P","e","r","f","e","c","t"," ","f","o","r"," ","e","a","t","i","n","g"," ","n","o","w","!"," ","T","h","i","s"," ","i","t","e","m"," ","i","s"," ","a","t"," ","p","e","a","k"," ","r","i","p","e","n","e","s","s",".">>,
    mockFood2 |-> <<"B","a","n","a","n","a">>,
    mockTip2 |-> <<"E","a","t"," ","w","i","t","h","i","n"," ","2"," ","d","a","y","s"," ","o","r"," ","u","s","e"," ","f","o","r"," ","b","a","k","i","n","g">>,
    mockDetails2 |-> <<"T","h","e"," ","b","a","n","a","n","a"," ","s","h","o","w","s"," ","o","p","t","i","m","a","l"," ","y","e","l","l","o","w"," ","c","o","l","o","r","i","n","g"," ","w","i","t","h"," ","m","i","n","i","m","a","l"," ","b","r","o","w","n"," ","s","p","o","t","s",","," ","i","n","d","i","c","a","t","i","n","g"," ","p","e","r","f","e","c","t"," ","r","i","p","e","n","e","s","s"," ","f","o","r"," ","c","o","n","s","u","m","p","t","i","o","n",".">>,
    mockRecommendation3 |-> <<"U","s","e"," ","s","o","o","n"," ","f","o","r"," ","c","o","o","k","i","n","g"," ","o","r"," ","b","a","k","i","n","g","."," ","S","t","i","l","l"," ","s","a","f","e"," ","b","u","t"," ","p","a","s","t"," ","p","r","i","m","e"," ","e","a","t","i","n","g"," ","q","u","a","l","i","t","y",".">>,
    mockFood3 |-> <<"T","o","m","a","t","o">>,
    mockTip3 |-> <<"U","s","e"," ","i","m","m","e","d","i","a","t","e","l","y"," ","f","o","r"," ","s","a","u","c","e","s"," ","o","r"," ","c","o","o","k","i","n","g">>,
    mockDetails3 |-> <<"T","h","e"," ","t","o","m","a","t","o"," ","s","h","o","w","s"," ","s","o","m","e"," ","s","o","f","t"," ","s","p","o","t","s"," ","a","n","d"," ","d","e","e","p","e","r"," ","c","o","l","o","r",","," ","i","n","d","i","c","a","t","i","n","g"," ","i","t"," ","s","h","o","u","l","d"," ","b","e"," ","u","s","e","d"," ","q","u","i","c","k","l","y"," ","i","n"," ","c","o","o","k","e","d"," ","d","i","s","h","e","s",".">>,
    mockRecommendation4 |-> <<"D","I","S","C","A","R","D"," ","I","M","M","E","D","I","A","T","E","L","Y"," ","-"," ","T","h","i","s"," ","i","t","e","m"," ","s","h","o","w","s"," ","c","l","e","a","r"," ","s","i","g","n","s"," ","o","f"," ","s","p","o","i","l","a","g","e"," ","a","n","d"," ","i","s"," ","u","n","s","a","f","e"," ","t","o"," ","c","o","n","s","u","m","e",".">>,
    mockFood4 |-> <<"B","r","e","a","d">>,
    mockTip4 |-> <<"D","i","s","p","o","s","e"," ","o","f"," ","s","a","f","e","l","y">>,
    mockDetails4 |-> <<"V","i","s","i","b","l","e"," ","m","o","l","d"," ","g","r","o","w","t","h"," ","d","e","t","e","c","t","e","d","."," ","T","h","i","s"," ","i","t","e","m"," ","p","o","s","e","s"," ","h","e","a","l","t","h"," ","r","i","s","k","s"," ","a","n","d"," ","s","h","o","u","l","d"," ","n","o","t"," ","b","e"," ","c","o","n","s","u","m","e","d",".">>,
    stirFry |-> <<"Q","u","i","c","k"," ","V","e","g","g","i","e"," ","S","t","i","r"," ","F","r","y">>,
    stirFryDescription |-> <<"A"," ","f","a","s","t"," ","a","n","d"," ","h","e","a","l","t","h","y"," ","w","a","y"," ","t","o"," ","u","s","e"," ","u","p"," ","v","e","g","e","t","a","b","l","e","s"," ","b","e","f","o","r","e"," ","t","h","e","y"," ","s","p","o","i","l">>,
    minutes15 |-> <<"1","5"," ","m","i","n","u","t","e","s">>,
    salad |-> <<"F","r","e","s","h"," ","G","a","r","d","e","n"," ","S","a","l","a","d">>,
    saladDescription |-> <<"L","i","g","h","t"," ","a","n","d"," ","r","e","f","r","e","s","h","i","n","g"," ","s","a","l","a","d"," ","p","e","r","f","e","c","t"," ","f","o","r"," ","p","e","a","k","-","f","r","e","s","h","n","e","s","s"," ","i","n","g","r","e","d","i","e","n","t","s">>,
    minutes10 |-> <<"1","0"," ","m","i","n","u","t","e","s">>,
    smoothie |-> <<"S","m","o","o","t","h","i","e"," ","B","o","w","l">>,
    smoothieDescription |-> <<"P","e","r","f","e","c","t"," ","w","a","y"," ","t","o"," ","u","s","e"," ","o","v","e","r","r","i","p","e"," ","f","r","u","i","t","s">>,
    minutes5 |-> <<"5"," ","m","i","n","u","t","e","s">>,
    banana |-> <<"b","a","n","a","n","a">>,
    berry |-> <<"b","e","r","r","y">>,
    fruit |-> <<"f","r","u","i","t">>,
    found |-> <<"F","o","u","n","d"," ">>,
    needUse |-> <<" ","i","t","e","m","s"," ","t","h","a","t"," ","n","e","e","d"," ","t","o"," ","b","e"," ","u","s","e","d"," ","s","o","o","n","!">>,
    allFresh |-> <<"A","l","l"," ","y","o","u","r"," ","i","n","g","r","e","d","i","e","n","t","s"," ","a","r","e"," ","f","r","e","s","h","!">>,
    stirFrySteps |-> <<<<"H","e","a","t"," ","o","i","l"," ","i","n"," ","a"," ","l","a","r","g","e"," ","p","a","n"," ","o","r"," ","w","o","k">>, <<"A","d","d"," ","v","e","g","e","t","a","b","l","e","s"," ","s","t","a","r","t","i","n","g"," ","w","i","t","h"," ","t","h","e"," ","f","i","r","m","e","s","t"," ","o","n","e","s">>, <<"S","t","i","r"," ","f","r","y"," ","f","o","r"," ","5","-","7"," ","m","i","n","u","t","e","s"," ","u","n","t","i","l"," ","t","e","n","d","e","r","-","c","r","i","s","p">>, <<"S","e","a","s","o","n"," ","w","i","t","h"," ","s","o","y"," ","s","a","u","c","e",","," ","g","a","r","l","i","c",","," ","a","n","d"," ","g","i","n","g","e","r">>, <<"S","e","r","v","e"," ","o","v","e","r"," ","r","i","c","e"," ","o","r"," ","n","o","o","d","l","e","s">>>>,
    saladSteps |-> <<<<"W","a","s","h"," ","a","n","d"," ","c","h","o","p"," ","a","l","l"," ","v","e","g","e","t","a","b","l","e","s">>, <<"C","o","m","b","i","n","e"," ","i","n"," ","a"," ","l","a","r","g","e"," ","b","o","w","l">>, <<"A","d","d"," ","y","o","u","r"," ","f","a","v","o","r","i","t","e"," ","d","r","e","s","s","i","n","g">>, <<"T","o","s","s"," ","g","e","n","t","l","y"," ","a","n","d"," ","s","e","r","v","e"," ","i","m","m","e","d","i","a","t","e","l","y">>>>,
    smoothieSteps |-> <<<<"B","l","e","n","d"," ","f","r","u","i","t","s"," ","w","i","t","h"," ","a"," ","s","p","l","a","s","h"," ","o","f"," ","m","i","l","k"," ","o","r"," ","y","o","g","u","r","t">>, <<"P","o","u","r"," ","i","n","t","o"," ","a"," ","b","o","w","l">>, <<"T","o","p"," ","w","i","t","h"," ","n","u","t","s",","," ","s","e","e","d","s",","," ","o","r"," ","g","r","a","n","o","l","a">>, <<"E","n","j","o","y"," ","i","m","m","e","d","i","a","t","e","l","y">>>> ]

IsNullish(v) == v.t \in {"undefined", "null"}

(* result.key on null or undefined raises a TypeError. *)
ThrowsOnRead(v) == IsNullish(v)

(* v.key: the own property of an object, undefined for anything else. *)
Get(v, key) ==
  IF v.t = "object" /\ key \in DOMAIN v.f THEN v.f[key] ELSE JsUndefined

(* ToBoolean, as used by Boolean(x) and by x || y. *)
Truthy(v) ==
  CASE v.t \in {"undefined", "null", "NaN"} -> FALSE
    [] v.t \in {"boolean", "number"} -> v.n # 0
    [] v.t = "string" -> v.s # <<>>
    [] OTHER -> TRUE

(* x || y *)
OrElse(x, y) == IF Truthy(x) THEN x ELSE y

DecDigits == <<"0", "1", "2", "3", "4", "5", "6", "7", "8", "9">>

HexLower == DecDigits \o <<"a", "b", "c", "d", "e", "f">>

HexUpper == DecDigits \o <<"A", "B", "C", "D", "E", "F">>

RECURSIVE NatToString(_)
NatToString(n) ==
  IF n < 10 THEN <<DecDigits[n + 1]>>
  ELSE NatToString(n \div 10) \o <<DecDigits[(n % 10) + 1]>>

(* Number::toString of an integer. *)
NumToString(n) == IF n < 0 THEN <<"-">> \o NatToString(-n) ELSE NatToString(n)

RECURSIVE JsToString(_)
RECURSIVE Join(_)
(* Array.prototype.join(","): null and undefined elements give "". *)
Join(a) ==
  IF a = <<>> THEN <<>>
  ELSE (IF IsNullish(Head(a)) THEN <<>> ELSE JsToString(Head(a)))
       \o (IF Tail(a) = <<>> THEN <<>> ELSE <<",">> \o Join(Tail(a)))

(* JsToString, the conversion parseInt applies to its argument. *)
JsToString(v) ==
  CASE v.t = "string" -> v.s
    [] v.t = "number" -> NumToString(v.n)
    [] v.t = "NaN" -> <<"N", "a", "N">>
    [] v.t = "boolean" ->
         IF v.n = 1 THEN <<"t", "r", "u", "e">> ELSE <<"f", "a", "l", "s", "e">>
    [] v.t = "undefined" -> <<"u", "n", "d", "e", "f", "i", "n", "e", "d">>
    [] v.t = "null" -> <<"n", "u", "l", "l">>
    [] v.t = "array" -> Join(v.a)
    [] OTHER ->
         <<"[", "o", "b", "j", "e", "c", "t", " ", "O", "b", "j", "e", "c", "t", "]">>

WhiteSpace == {" ", "\t", "\n"}

RECURSIVE TrimStart(_)
TrimStart(s) ==
  IF s # <<>> /\ Head(s) \in WhiteSpace THEN TrimStart(Tail(s)) ELSE s

IsDigit(c, radix) == \E i \in 1..radix : HexLower[i] = c \/ HexUpper[i] = c

DigitValue(c) == (CHOOSE i \in 1..16 : HexLower[i] = c \/ HexUpper[i] = c) - 1

(* The longest prefix of s made of digits of the radix. *)
RECURSIVE DigitPrefix(_, _)
DigitPrefix(s, radix) ==
  IF s # <<>> /\ IsDigit(Head(s), radix)
  THEN <<Head(s)>> \o DigitPrefix(Tail(s), radix)
  ELSE <<>>

RECURSIVE DigitsValue(_, _)
DigitsValue(z, radix) ==
  IF z = <<>> THEN 0
  ELSE DigitsValue(SubSeq(z, 1, Len(z) - 1), radix) * radix + DigitValue(z[Len(z)])

(* parseInt(v) with no radix: leading white space, a sign, a 0x prefix,   *)
(* then the longest run of digits; NaN when there is no digit.            *)
parseInt(v) ==
  LET trimmed == TrimStart(JsToString(v))
      signed == trimmed # <<>> /\ Head(trimmed) \in {"+", "-"}
      sign == IF trimmed # <<>> /\ Head(trimmed) = "-" THEN -1 ELSE 1
      body == IF signed THEN Tail(trimmed) ELSE trimmed
      hex == Len(body) >= 2 /\ body[1] = "0" /\ body[2] \in {"x", "X"}
      radix == IF hex THEN 16 ELSE 10
      rest == IF hex THEN Tail(Tail(body)) ELSE body
      z == DigitPrefix(rest, radix)
  IN IF z = <<>> THEN JsNaN ELSE JsNum(sign * DigitsValue(z, radix))

(* Math.max(a, b) and Math.min(a, b): NaN if either argument is NaN. *)
MathMax(x, y) ==
  IF x.t = "NaN" \/ y.t = "NaN" THEN JsNaN
  ELSE IF x.n >= y.n THEN x ELSE y

MathMin(x, y) ==
  IF x.t = "NaN" \/ y.t = "NaN" THEN JsNaN
  ELSE IF x.n <= y.n THEN x ELSE y

(* The outcome of a call: a returned value, or a thrown TypeError. *)
Returned(v) == [threw |-> FALSE, value |-> v]

Thrown == [threw |-> TRUE, value |-> JsUndefined]

----------------------------------------------------------------------------
(* GeminiService.validateAnalysisResult *)

validFreshness ==
  {JsStr(Lit.fresh), JsStr(Lit.ripe), JsStr(Lit.overripe), JsStr(Lit.spoiled)}

(* A days_left computed without the lower clamp Math.max(0, .). *)
daysLeftField_NoFloor(result) ==
  OrElse(parseInt(Get(result, "days_left")), JsNum(0))

(* line 702: Math.max(0, parseInt(result.days_left) || 0) *)
daysLeftField(result) ==
  MathMax(JsNum(0), OrElse(parseInt(Get(result, "days_left")), JsNum(0)))

(* A confidence computed without the upper clamp Math.min(100, .). *)
confidenceField_NoCap(result) ==
  MathMax(JsNum(0), OrElse(parseInt(Get(result, "confidence")), JsNum(85)))

(* A confidence whose fallback is 0, as for days_left. *)
confidenceField_ZeroDefault(result) ==
  MathMin(JsNum(100),
          MathMax(JsNum(0), OrElse(parseInt(Get(result, "confidence")), JsNum(0))))

(* line 703: Math.min(100, Math.max(0, parseInt(result.confidence) || 85)) *)
confidenceField(result) ==
  MathMin(JsNum(100),
          MathMax(JsNum(0), OrElse(parseInt(Get(result, "confidence")), JsNum(85))))

validateAnalysisResult(result) ==
  IF ThrowsOnRead(result) THEN Thrown
  ELSE Returned(
    [ freshness |->
        IF Get(result, "freshness") \in validFreshness
        THEN Get(result, "freshness") ELSE JsStr(Lit.fresh),
      safe_to_consume |-> JsBool(Truthy(Get(result, "safe_to_consume"))),
      days_left |-> daysLeftField(result),
      confidence |-> confidenceField(result),
      recommendation |->
        OrElse(Get(result, "recommendation"), JsStr(Lit.noRecommendation)),
      food_type |-> OrElse(Get(result, "food_type"), JsStr(Lit.unknownFood)),
      storage_tip |-> OrElse(Get(result, "storage_tip"), JsStr(Lit.storeTip)),
      details |-> OrElse(Get(result, "details"), JsStr(Lit.noDetails)) ])

----------------------------------------------------------------------------
(* GeminiService.validateRecipesResult *)

validDifficulty == {JsStr(Lit.Easy), JsStr(Lit.Medium), JsStr(Lit.Hard)}

validPriority == {JsStr(Lit.high), JsStr(Lit.medium), JsStr(Lit.low)}

(* Array.isArray(v) ? v : [] *)
ArrayOrEmpty(v) == IF v.t = "array" THEN v ELSE JsArr(<<>>)

(* A difficulty whose fallback is the first element of the valid list. *)
difficultyField_EasyDefault(recipe) ==
  IF Get(recipe, "difficulty") \in validDifficulty
  THEN Get(recipe, "difficulty") ELSE JsStr(Lit.Easy)

(* lines 722-724 *)
difficultyField(recipe) ==
  IF Get(recipe, "difficulty") \in validDifficulty
  THEN Get(recipe, "difficulty") ELSE JsStr(Lit.Medium)

(* The callback of map, lines 717-732; index is the 0-based position. *)
validatedRecipe(recipe, index) ==
  [ id |-> OrElse(Get(recipe, "id"), JsNum(index + 1)),
    name |->
      OrElse(Get(recipe, "name"),
             JsStr(Lit.recipePrefix \o NumToString(index + 1))),
    description |-> OrElse(Get(recipe, "description"), JsStr(Lit.delicious)),
    cookTime |-> OrElse(Get(recipe, "cookTime"), JsStr(Lit.cookTime)),
    difficulty |-> difficultyField(recipe),
    ingredients |-> ArrayOrEmpty(Get(recipe, "ingredients")),
    instructions |-> ArrayOrEmpty(Get(recipe, "instructions")),
    priority |->
      IF Get(recipe, "priority") \in validPriority
      THEN Get(recipe, "priority") ELSE JsStr(Lit.medium) ]

(* result.recipes throws on null/undefined; (result.recipes || []).map    *)
(* throws when the value is truthy and not an array; recipe.id throws for *)
(* a null or undefined element.                                           *)
validateRecipesResult(result) ==
  IF ThrowsOnRead(result) THEN Thrown
  ELSE
    LET list == OrElse(Get(result, "recipes"), JsArr(<<>>))
    IN IF list.t # "array" THEN Thrown
       ELSE IF \E i \in 1..Len(list.a) : ThrowsOnRead(list.a[i]) THEN Thrown
       ELSE Returned(
         [ recipes |->
             [i \in 1..Len(list.a) |-> validatedRecipe(list.a[i], i - 1)],
           total |-> JsNum(Len(list.a)),
           urgent_items_used |->
             OrElse(Get(result, "urgent_items_used"), JsNum(0)),
           message |->
             OrElse(Get(result, "message"), JsStr(Lit.recipesMessage)) ])

----------------------------------------------------------------------------
(* PantryService.getFreshnessLevel and FoodCard.getStatusStyle *)

(* A first test written daysLeft == 0. *)
getFreshnessLevel_EqualsZero(d) ==
  IF d = 0 THEN "spoiled"
  ELSE IF d <= 1 THEN "urgent"
  ELSE IF d <= 3 THEN "soon"
  ELSE "fresh"

getFreshnessLevel(d) ==
  IF d <= 0 THEN "spoiled"
  ELSE IF d <= 1 THEN "urgent"
  ELSE IF d <= 3 THEN "soon"
  ELSE "fresh"

(* The display of a tier: the entries of the colour table are named, the *)
(* text is the string shown.                                             *)
Style(colour, icon, text) ==
  [ color |-> colour, backgroundColor |-> colour \o "Bg", icon |-> icon,
    text |-> text, textColor |-> colour ]

(* The third test written daysLeft < 3. *)
getStatusStyle_StrictThree(item) ==
  LET d == item.days_left
  IN IF d <= 0 THEN Style("spoiled", "warning", Lit.Spoiled)
     ELSE IF d <= 1 THEN Style("overripe", "time", Lit.UseToday)
     ELSE IF d < 3
       THEN Style("ripe", "alert-circle", NumToString(d) \o Lit.daysLeft)
     ELSE Style("fresh", "checkmark-circle", NumToString(d) \o Lit.daysLeft)

getStatusStyle(item) ==
  LET d == item.days_left
  IN IF d <= 0 THEN Style("spoiled", "warning", Lit.Spoiled)
     ELSE IF d <= 1 THEN Style("overripe", "time", Lit.UseToday)
     ELSE IF d <= 3
       THEN Style("ripe", "alert-circle", NumToString(d) \o Lit.daysLeft)
     ELSE Style("fresh", "checkmark-circle", NumToString(d) \o Lit.daysLeft)

----------------------------------------------------------------------------
(* NotificationService.getNotificationData and PantryScreen.getPantryStats; *)
(* pantryItems.filter(test) is SelectSeq(pantryItems, test).                *)

(* IEEE 754 double arithmetic of (freshItems.length / pantryItems.length)  *)
(* * 100.  The 53-bit significand of a double is held as a leading part    *)
(* top and four limbs of LimbBits bits below it; the last limb keeps only  *)
(* lastBits bits after a product is rounded; e is the exponent of the last *)
(* bit kept: value = (top, limbs) * 2^e.                                   *)
LimbBits == 13

RECURSIVE Pow2(_)
Pow2(n) == IF n = 0 THEN 1 ELSE 2 * Pow2(n - 1)

LimbBase == Pow2(LimbBits)

(* The number of bits of n >= 1. *)
RECURSIVE BitLength(_)
BitLength(n) == IF n <= 1 THEN 1 ELSE 1 + BitLength(n \div 2)

(* The remainder left after n bits of the binary expansion of r / t. *)
RECURSIVE DivRem(_, _, _)
DivRem(r, t, n) == IF n = 0 THEN r ELSE DivRem((2 * r) % t, t, n - 1)

(* The position of the first 1 in the expansion of r / t, for 0 < r < t. *)
RECURSIVE LeadPos(_, _)
LeadPos(r, t) == IF 2 * r >= t THEN 1 ELSE 1 + LeadPos(2 * r, t)

(* Round to nearest, ties to even: guard is the first bit dropped, sticky *)
(* whether anything non-zero follows it.  The carry of the increment runs *)
(* up the limbs into top.                                                 *)
RoundNearestEven(x, guard, sticky) ==
  IF guard = 1 /\ (sticky \/ x.limbs[4] % 2 = 1)
  THEN LET base4 == Pow2(x.lastBits)
           v4 == x.limbs[4] + 1
           v3 == x.limbs[3] + v4 \div base4
           v2 == x.limbs[2] + v3 \div LimbBase
           v1 == x.limbs[1] + v2 \div LimbBase
       IN [x EXCEPT !.limbs = <<v1 % LimbBase, v2 % LimbBase, v3 % LimbBase,
                                v4 % base4>>,
                    !.top = x.top + v1 \div LimbBase]
  ELSE x

(* fresh / total as a double, for 0 < fresh <= total. *)
DoubleDiv(fresh, total) ==
  LET t2 == 2 * total
      p == LeadPos(fresh, t2)
      r0 == (2 * DivRem(fresh, t2, p - 1)) % t2
      r1 == (r0 * LimbBase) % t2
      r2 == (r1 * LimbBase) % t2
      r3 == (r2 * LimbBase) % t2
      r4 == (r3 * LimbBase) % t2
  IN RoundNearestEven(
       [ top |-> 1,
         limbs |-> <<(r0 * LimbBase) \div t2, (r1 * LimbBase) \div t2,
                     (r2 * LimbBase) \div t2, (r3 * LimbBase) \div t2>>,
         lastBits |-> LimbBits,
         e |-> 0 - (p + 4 * LimbBits - 1) ],
       (2 * r4) \div t2, (2 * r4) % t2 # 0)

(* x * k as a double, for a double x of DoubleDiv and a small integer k:  *)
(* the exact product, then the bits beyond 53 rounded away.               *)
DoubleMulSmall(x, k) ==
  LET v4 == x.limbs[4] * k
      v3 == x.limbs[3] * k + v4 \div LimbBase
      v2 == x.limbs[2] * k + v3 \div LimbBase
      v1 == x.limbs[1] * k + v2 \div LimbBase
      top == x.top * k + v1 \div LimbBase
      drop == BitLength(top) - BitLength(x.top)
      low == (v4 % LimbBase) % Pow2(drop)
  IN IF drop = 0
     THEN [ top |-> top,
            limbs |-> <<v1 % LimbBase, v2 % LimbBase, v3 % LimbBase,
                        v4 % LimbBase>>,
            lastBits |-> LimbBits, e |-> x.e ]
     ELSE RoundNearestEven(
            [ top |-> top,
              limbs |-> <<v1 % LimbBase, v2 % LimbBase, v3 % LimbBase,
                          (v4 % LimbBase) \div Pow2(drop)>>,
              lastBits |-> LimbBits - drop,
              e |-> x.e + drop ],
            low \div Pow2(drop - 1), low % Pow2(drop - 1) # 0)

(* The integer made of top and the first need bits below it. *)
RECURSIVE TakeBits(_, _, _, _)
TakeBits(x, acc, i, need) ==
  LET w == IF i = 4 THEN x.lastBits ELSE LimbBits
  IN IF need = 0 THEN acc
     ELSE IF need >= w THEN TakeBits(x, acc * Pow2(w) + x.limbs[i], i + 1, need - w)
     ELSE acc * Pow2(need) + x.limbs[i] \div Pow2(w - need)

(* Math.round(x) for a double 0 < x < 2^16: floor(2x), plus one, halved,  *)
(* so that a fraction of one half or more rounds up.                      *)
MathRound(x) ==
  LET below == 3 * LimbBits + x.lastBits
      shift == 0 - (x.e + 1)
      twice == IF shift >= below
               THEN (IF shift - below > 16 THEN 0
                     ELSE x.top \div Pow2(shift - below))
               ELSE TakeBits(x, x.top, 1, below - shift)
  IN (twice + 1) \div 2

(* Math.round as if the quotient were exact: nearest integer, half up. *)
RoundPercent_Exact(fresh, total) == (200 * fresh + total) \div (2 * total)

(* lines 955-958: Math.round((freshItems.length / pantryItems.length) * 100) *)
RoundPercent(fresh, total) ==
  IF fresh = 0 THEN 0
  ELSE MathRound(DoubleMulSmall(DoubleDiv(fresh, total), 100))

(* An expired test that leaves out the day of expiry itself. *)
IsExpired_BeforeToday(item) == item.days_left < 0

IsExpired(item) == item.days_left <= 0

(* An expiring test that starts at 0 instead of above 0. *)
IsExpiringSoon_FromZero(item) == item.days_left >= 0 /\ item.days_left <= 3

IsExpiringSoon(item) == item.days_left > 0 /\ item.days_left <= 3

IsFresh(item) == item.days_left > 3

getNotificationData(pantryItems) ==
  LET expiredItems == SelectSeq(pantryItems, IsExpired)
      expiringSoonItems == SelectSeq(pantryItems, IsExpiringSoon)
      freshItems == SelectSeq(pantryItems, IsFresh)
  IN [ expired |->
         [ count |-> Len(expiredItems),
           items |-> expiredItems,
           message |->
             IF Len(expiredItems) > 0
             THEN JsStr(NumToString(Len(expiredItems)) \o Lit.spoiledMessage)
             ELSE JsNull,
           severity |-> "high" ],
       expiring |->
         [ count |-> Len(expiringSoonItems),
           items |-> expiringSoonItems,
           message |->
             IF Len(expiringSoonItems) > 0
             THEN JsStr(NumToString(Len(expiringSoonItems))
                        \o Lit.expiringMessage)
             ELSE JsNull,
           severity |-> "medium" ],
       fresh |-> [count |-> Len(freshItems), items |-> freshItems],
       summary |->
         [ total |-> Len(pantryItems),
           needsAttention |-> Len(expiredItems) + Len(expiringSoonItems),
           healthScore |->
             IF Len(pantryItems) > 0
             THEN RoundPercent(Len(freshItems), Len(pantryItems))
             ELSE 100 ] ]

IsUrgentStat(item) == item.days_left <= 1

IsSoonStat(item) == item.days_left > 1 /\ item.days_left <= 3

getPantryStats(pantryItems) ==
  [ urgent |-> Len(SelectSeq(pantryItems, IsUrgentStat)),
    expiringSoon |-> Len(SelectSeq(pantryItems, IsSoonStat)),
    fresh |-> Len(SelectSeq(pantryItems, IsFresh)),
    total |-> Len(pantryItems) ]

----------------------------------------------------------------------------
(* The raw values the normalisers are applied to. *)

Chars3 == <<"a", "b", "c">>

Primitives == {JsUndefined, JsNull, JsNum(5), JsStr(Chars3), JsBool(TRUE)}

FreshnessSamples ==
  {JsUndefined, JsStr(Lit.ripe), JsStr(Lit.spoiled),
   JsStr(<<"r", "o", "t", "t", "e", "n">>), JsNum(1)}

NumberSamples ==
  {JsUndefined, JsNull, JsNaN, JsNum(0), JsNum(3), JsNum(-5), JsNum(100),
   JsNum(150), JsStr(<<"1", "2">>), JsStr(<<" ", "-", "7", " ", "d">>),
   JsStr(<<"2", ".", "7">>), JsStr(<<"0", "x", "1", "F">>), JsStr(Chars3),
   JsArr(<<JsNum(4)>>), JsObj(NoProps)}

TextSamples == {JsUndefined, JsStr(<<>>), JsStr(Chars3)}

AnalysisObjects ==
  { JsObj([ freshness |-> fr, safe_to_consume |-> sc, days_left |-> dl,
            confidence |-> cf, recommendation |-> rc, food_type |-> ft,
            storage_tip |-> JsUndefined, details |-> dt ]) :
      fr \in FreshnessSamples, sc \in {JsUndefined, JsBool(TRUE)},
      dl \in NumberSamples, cf \in NumberSamples,
      rc \in TextSamples, ft \in {JsUndefined, JsNum(7)},
      dt \in {JsUndefined, JsStr(Chars3)} }

AnalysisInputs == Primitives \cup {JsObj(NoProps)} \cup AnalysisObjects

MaxRecipes == 3

IdSamples == {JsNum(0), JsNum(1), JsNum(2), JsNum(-1), JsStr(Chars3)}

(* The elements of the lists of several recipes. *)
RecipeElems ==
  {JsNull, JsNum(5), JsObj(NoProps)} \cup {JsObj([id |-> i]) : i \in IdSamples}

(* The source recipes given one at a time. *)
RecipeObjects ==
  { JsObj([ id |-> i, name |-> nm, difficulty |-> df, priority |-> pr,
            ingredients |-> ig, instructions |-> ins ]) :
      i \in IdSamples \cup {JsUndefined},
      nm \in {JsUndefined, JsStr(Chars3)},
      df \in {JsUndefined, JsStr(Lit.Easy), JsStr(Lit.Hard), JsStr(Lit.medium),
              JsNum(1)},
      pr \in {JsUndefined, JsStr(Lit.high), JsStr(Lit.low), JsStr(Lit.Medium)},
      ig \in {JsUndefined, JsArr(<<>>), JsArr(<<JsStr(Chars3)>>), JsStr(Chars3),
              JsObj(NoProps)},
      ins \in {JsUndefined, JsArr(<<JsStr(Chars3), JsStr(Chars3)>>), JsNum(3)} }

RecipeLists ==
  {JsArr(a) : a \in UNION {[1..n -> RecipeElems] : n \in 0..MaxRecipes}}
    \cup {JsArr(<<r>>) : r \in RecipeObjects}

RecipesInputs ==
  Primitives
    \cup { JsObj([recipes |-> r, urgent_items_used |-> u]) :
             r \in RecipeLists \cup Primitives \cup {JsObj(NoProps)},
             u \in {JsUndefined, JsNum(2)} }

MaxDays == 6

DaysRange == (0 - MaxDays)..MaxDays

MaxItems == 3

(* The collection of n items whose days left are d[1..n]: item i has the *)
(* document id i.                                                        *)
ItemCollection(n, d) == [i \in 1..n |-> [id |-> i, days_left |-> d[i]]]

NoCard == [level |-> "none", style |-> Style("none", "none", <<>>)]

----------------------------------------------------------------------------

HarnessInit ==
  /\ op = "idle"
  /\ arg = JsUndefined
  /\ ret = Returned(JsUndefined)
  /\ daysLeft = 0
  /\ card = NoCard
  /\ items = <<>>
  /\ summary = [notification |-> getNotificationData(<<>>),
                stats |-> getPantryStats(<<>>)]

(* The screen before the first snapshot (useState([]), useState(null)) and *)
(* the service as constructed (notificationIds = new Set()).               *)
NoData == [shown |-> FALSE, data |-> getNotificationData(<<>>)]

NotifyInit ==
  /\ pantry = <<>>
  /\ notificationData = NoData
  /\ dismissed = FALSE
  /\ snapshots = 0
  /\ calls = <<>>
  /\ permission = "undetermined"
  /\ scheduled = {}
  /\ notificationIds = {}

ScannerInit ==
  /\ showCamera = FALSE
  /\ capturedImage = 0
  /\ analysisResult = 0
  /\ isAnalyzing = FALSE
  /\ analyses = <<>>

StoreInit ==
  /\ docs = <<>>
  /\ now = 0

RecipesInit ==
  /\ isGeneratingRecipes = FALSE
  /\ refreshing = FALSE
  /\ recipes = 0
  /\ timers = 0
  /\ generations = <<>>

Init == HarnessInit /\ NotifyInit /\ ScannerInit /\ StoreInit /\ RecipesInit

ValidateAnalysis ==
  /\ op = "idle"
  /\ \E raw \in AnalysisInputs :
       /\ op' = "validateAnalysisResult"
       /\ arg' = raw
       /\ ret' = validateAnalysisResult(raw)
  /\ UNCHANGED <<daysLeft, card, items, summary>>
  /\ UNCHANGED notifyVars
  /\ UNCHANGED appVars

ValidateRecipes ==
  /\ op = "idle"
  /\ \E raw \in RecipesInputs :
       /\ op' = "validateRecipesResult"
       /\ arg' = raw
       /\ ret' = validateRecipesResult(raw)
  /\ UNCHANGED <<daysLeft, card, items, summary>>
  /\ UNCHANGED notifyVars
  /\ UNCHANGED appVars

(* An item with d days left is classified and its card is styled; the next *)
(* item may follow at once.                                                *)
Classify ==
  /\ op \in {"idle", "classify"}
  /\ \E d \in DaysRange :
       /\ op' = "classify"
       /\ daysLeft' = d
       /\ card' = [ level |-> getFreshnessLevel(d),
                    style |-> getStatusStyle([days_left |-> d]) ]
  /\ UNCHANGED <<arg, ret, items, summary>>
  /\ UNCHANGED notifyVars
  /\ UNCHANGED appVars

(* An item collection is summarised under both policies. *)
Summarize ==
  /\ op = "idle"
  /\ \E n \in 0..MaxItems : \E d \in [1..n -> DaysRange] :
       LET pantryItems == ItemCollection(n, d)
       IN /\ op' = "summarize"
          /\ items' = pantryItems
          /\ summary' = [ notification |-> getNotificationData(pantryItems),
                          stats |-> getPantryStats(pantryItems) ]
  /\ UNCHANGED <<arg, ret, daysLeft, card>>
  /\ UNCHANGED notifyVars
  /\ UNCHANGED appVars

(* The caller has consumed the result. *)
Reset ==
  /\ op # "idle"
  /\ op' = "idle"
  /\ arg' = JsUndefined
  /\ ret' = Returned(JsUndefined)
  /\ daysLeft' = 0
  /\ card' = NoCard
  /\ items' = <<>>
  /\ summary' = [notification |-> getNotificationData(<<>>),
                 stats |-> getPantryStats(<<>>)]
  /\ UNCHANGED notifyVars
  /\ UNCHANGED appVars

Next == ValidateAnalysis \/ ValidateRecipes \/ Classify \/ Summarize \/ Reset

Spec == Init /\ [][Next]_vars

----------------------------------------------------------------------------
(* Properties of validateAnalysisResult *)

AnalysisFieldNames ==
  {"freshness", "safe_to_consume", "days_left", "confidence",
   "recommendation", "food_type", "storage_tip", "details"}

FreshnessSet ==
  {JsStr(<<"f", "r", "e", "s", "h">>), JsStr(<<"r", "i", "p", "e">>),
   JsStr(<<"o", "v", "e", "r", "r", "i", "p", "e">>),
   JsStr(<<"s", "p", "o", "i", "l", "e", "d">>)}

Max(x, y) == IF x >= y THEN x ELSE y

Min(x, y) == IF x <= y THEN x ELSE y

AnalysisCall == op = "validateAnalysisResult"

(* C1: validateAnalysisResult never throws, whatever the raw value (null, *)
(* undefined, a number, a string, any object), and every one of the eight *)
(* fields of its result is populated.                                     *)
C1_AnalysisNeverFails ==
  AnalysisCall =>
    /\ ~ret.threw
    /\ DOMAIN ret.value = AnalysisFieldNames
    /\ \A k \in AnalysisFieldNames : ~IsNullish(ret.value[k])

(* C2: for every input that is not null or undefined, freshness is in     *)
(* {fresh, ripe, overripe, spoiled} (kept when the input is in the set,   *)
(* fresh otherwise), days_left is an integer >= 0 and confidence is an    *)
(* integer in 0..100; confidence 150 gives 100 and confidence -5 gives 0. *)
C2_AnalysisRanges ==
  (AnalysisCall /\ ~IsNullish(arg)) =>
    /\ ~ret.threw
    /\ ret.value.freshness \in FreshnessSet
    /\ ret.value.freshness =
         (IF Get(arg, "freshness") \in FreshnessSet
          THEN Get(arg, "freshness") ELSE JsStr(<<"f", "r", "e", "s", "h">>))
    /\ ret.value.days_left.t = "number" /\ ret.value.days_left.n >= 0
    /\ ret.value.confidence.t = "number"
    /\ ret.value.confidence.n \in 0..100
    /\ (Get(arg, "confidence") = JsNum(150) => ret.value.confidence = JsNum(100))
    /\ (Get(arg, "confidence") = JsNum(-5) => ret.value.confidence = JsNum(0))

C2_Witness ==
  /\ AnalysisCall
  /\ Get(arg, "freshness") = JsStr(<<"r", "o", "t", "t", "e", "n">>)
  /\ Get(arg, "confidence") = JsNum(150)
  /\ Get(arg, "days_left") = JsNum(-5)
  /\ ret.value.freshness = JsStr(<<"f", "r", "e", "s", "h">>)
  /\ ret.value.confidence = JsNum(100)
  /\ ret.value.days_left = JsNum(0)

(* The integer parsed from a field, or dflt when the field is absent or *)
(* not numeric.                                                          *)
ParsedOr(v, dflt) == IF parseInt(v).t = "NaN" THEN dflt ELSE parseInt(v).n

(* C3 as stated: days_left = max(0, n) and confidence = min(100, max(0, n)), *)
(* n being the integer parsed from the field and 0 when the field is absent *)
(* or non-numeric.                                                          *)
C3_ClampsWithZeroDefault ==
  (AnalysisCall /\ ~ret.threw) =>
    /\ ret.value.days_left = JsNum(Max(0, ParsedOr(Get(arg, "days_left"), 0)))
    /\ ret.value.confidence =
         JsNum(Min(100, Max(0, ParsedOr(Get(arg, "confidence"), 0))))

(* C3 amended: days_left = max(0, n) with n = 0 when the field is absent or *)
(* non-numeric; confidence = min(100, max(0, n)) with n = 85 when the field *)
(* is absent, non-numeric or parses to 0.                                   *)
C3_Clamps ==
  (AnalysisCall /\ ~ret.threw) =>
    /\ ret.value.days_left = JsNum(Max(0, ParsedOr(Get(arg, "days_left"), 0)))
    /\ ret.value.confidence =
         LET n == ParsedOr(Get(arg, "confidence"), 85)
         IN JsNum(Min(100, Max(0, IF n = 0 THEN 85 ELSE n)))

C3_Witness ==
  /\ AnalysisCall
  /\ Get(arg, "confidence") = JsNum(0)
  /\ Get(arg, "days_left") = JsStr(<<" ", "-", "7", " ", "d">>)
  /\ ret.value.confidence = JsNum(85)
  /\ ret.value.days_left = JsNum(0)

(* C4: validateAnalysisResult({}) holds every fallback value: freshness  *)
(* fresh, confidence 85, days_left 0, safe_to_consume false and the four *)
(* fallback strings.                                                     *)
C4_EmptyObjectFallbacks ==
  (AnalysisCall /\ arg = JsObj(NoProps)) =>
    ret = Returned(
      [ freshness |-> JsStr(<<"f", "r", "e", "s", "h">>),
        safe_to_consume |-> JsBool(FALSE),
        days_left |-> JsNum(0),
        confidence |-> JsNum(85),
        recommendation |-> JsStr(Lit.noRecommendation),
        food_type |-> JsStr(Lit.unknownFood),
        storage_tip |-> JsStr(Lit.storeTip),
        details |-> JsStr(Lit.noDetails) ])

C4_Witness ==
  /\ AnalysisCall
  /\ arg = JsObj(NoProps)
  /\ ~ret.threw
  /\ ret.value.confidence = JsNum(85)

----------------------------------------------------------------------------
(* Properties of validateRecipesResult *)

RecipesCall == op = "validateRecipesResult"

DifficultySet ==
  {JsStr(<<"E", "a", "s", "y">>), JsStr(<<"M", "e", "d", "i", "u", "m">>),
   JsStr(<<"H", "a", "r", "d">>)}

PrioritySet ==
  {JsStr(<<"h", "i", "g", "h">>), JsStr(<<"m", "e", "d", "i", "u", "m">>),
   JsStr(<<"l", "o", "w">>)}

(* The list of source recipes of the call, empty when recipes is absent. *)
SourceRecipes ==
  IF Get(arg, "recipes").t = "array" THEN Get(arg, "recipes").a ELSE <<>>

(* C5: validateRecipesResult never throws, whatever the raw value: null,  *)
(* a recipes field that is absent or not a list, a list holding null or   *)
(* non-object elements.                                                   *)
C5_RecipesNeverFails == RecipesCall => ~ret.threw

(* C6: in every batch returned, each recipe id is a positive integer and *)
(* no two recipes share an id.                                           *)
C6_IdsPositiveUnique ==
  (RecipesCall /\ ~ret.threw) =>
    LET out == ret.value.recipes
    IN /\ \A i \in 1..Len(out) : out[i].id.t = "number" /\ out[i].id.n > 0
       /\ \A i, j \in 1..Len(out) : i # j => out[i].id # out[j].id

(* C7: for every source recipe, difficulty is in {Easy, Medium, Hard}      *)
(* (Medium when the source value is not), priority is in {high, medium,    *)
(* low} (medium when the source value is not), ingredients and instructions *)
(* are lists (empty when the source value is no list), total is the number *)
(* of recipes returned; {recipes: [{}]} gives one recipe with id 1, Medium, *)
(* medium and empty lists.                                                 *)
C7_RecipeFields ==
  (RecipesCall /\ ~ret.threw) =>
    LET src == SourceRecipes
        out == ret.value.recipes
    IN /\ Len(out) = Len(src)
       /\ ret.value.total = JsNum(Len(out))
       /\ \A i \in 1..Len(out) :
            /\ out[i].difficulty \in DifficultySet
            /\ out[i].difficulty =
                 (IF Get(src[i], "difficulty") \in DifficultySet
                  THEN Get(src[i], "difficulty")
                  ELSE JsStr(<<"M", "e", "d", "i", "u", "m">>))
            /\ out[i].priority \in PrioritySet
            /\ out[i].priority =
                 (IF Get(src[i], "priority") \in PrioritySet
                  THEN Get(src[i], "priority")
                  ELSE JsStr(<<"m", "e", "d", "i", "u", "m">>))
            /\ out[i].ingredients =
                 (IF Get(src[i], "ingredients").t = "array"
                  THEN Get(src[i], "ingredients") ELSE JsArr(<<>>))
            /\ out[i].instructions =
                 (IF Get(src[i], "instructions").t = "array"
                  THEN Get(src[i], "instructions") ELSE JsArr(<<>>))
       /\ (src = <<JsObj(NoProps)>> =>
            /\ Len(out) = 1
            /\ out[1].id = JsNum(1)
            /\ out[1].difficulty = JsStr(<<"M", "e", "d", "i", "u", "m">>)
            /\ out[1].priority = JsStr(<<"m", "e", "d", "i", "u", "m">>)
            /\ out[1].ingredients = JsArr(<<>>)
            /\ out[1].instructions = JsArr(<<>>))

C7_Witness ==
  /\ RecipesCall
  /\ SourceRecipes = <<JsObj(NoProps)>>
  /\ ~ret.threw
  /\ ret.value.total = JsNum(1)
  /\ ret.value.recipes[1].id = JsNum(1)
  /\ ret.value.recipes[1].difficulty = JsStr(<<"M", "e", "d", "i", "u", "m">>)

----------------------------------------------------------------------------
(* Properties of the classification *)

ClassifyCall == op = "classify"

Tiers == {"spoiled", "urgent", "soon", "fresh"}

(* spoiled > urgent > soon > fresh *)
TierRank(tier) ==
  CASE tier = "spoiled" -> 3
    [] tier = "urgent" -> 2
    [] tier = "soon" -> 1
    [] tier = "fresh" -> 0

DaysLeftText(d) == NumToString(d) \o <<" ", "d", "a", "y", "s", " ", "l", "e", "f", "t">>

(* C8: getFreshnessLevel(d) is spoiled if d <= 0, else urgent if d <= 1,   *)
(* else soon if d <= 3, else fresh (0 spoiled, 1 urgent, 3 soon, 4 fresh), *)
(* and getStatusStyle shows the same tier for the same d: Spoiled, Use     *)
(* Today, 'd days left' in the ripe colour, 'd days left' in the fresh     *)
(* colour.                                                                 *)
C8_TiersAndStyles ==
  ClassifyCall =>
    /\ (daysLeft <= 0 => card.level = "spoiled")
    /\ (daysLeft = 1 => card.level = "urgent")
    /\ (daysLeft \in 2..3 => card.level = "soon")
    /\ (daysLeft >= 4 => card.level = "fresh")
    /\ (card.level = "spoiled" =>
          card.style.text = <<"S", "p", "o", "i", "l", "e", "d">>
            /\ card.style.color = "spoiled")
    /\ (card.level = "urgent" =>
          card.style.text = <<"U", "s", "e", " ", "T", "o", "d", "a", "y">>
            /\ card.style.color = "overripe")
    /\ (card.level = "soon" =>
          card.style.text = DaysLeftText(daysLeft) /\ card.style.color = "ripe")
    /\ (card.level = "fresh" =>
          card.style.text = DaysLeftText(daysLeft) /\ card.style.color = "fresh")

C8_Witness ==
  /\ ClassifyCall
  /\ daysLeft = 3
  /\ card.level = "soon"
  /\ card.style.text = <<"3", " ", "d", "a", "y", "s", " ", "l", "e", "f", "t">>
  /\ card.style.color = "ripe"

(* C9: getFreshnessLevel returns a tier for every integer, negative ones   *)
(* included, and of two classified values d1 < d2 the tier of d1 ranks at  *)
(* least as severe as the tier of d2.                                      *)
C9_TotalMonotonic ==
  /\ [](ClassifyCall => card.level \in Tiers)
  /\ [][(ClassifyCall /\ ClassifyCall' /\ daysLeft < daysLeft') =>
          TierRank(card.level) >= TierRank(card'.level)]_vars

C9_Witness ==
  /\ ClassifyCall
  /\ daysLeft < 0
  /\ card.level = "spoiled"

----------------------------------------------------------------------------
(* Properties of the summaries *)

SummarizeCall == op = "summarize"

(* How many entries of the list are the item with this id. *)
Occurrences(list, id) == Cardinality({k \in 1..Len(list) : list[k].id = id})

(* C10: under the notification policy (expired: days_left <= 0, expiring:  *)
(* 0 < days_left <= 3, fresh: days_left > 3) and under the stats-card      *)
(* policy (urgent: days_left <= 1, soon: 1 < days_left <= 3, fresh:        *)
(* days_left > 3), taken separately, the bucket counts sum to the number   *)
(* of items and every item is counted in exactly one bucket.               *)
C10_BucketsPartition ==
  SummarizeCall =>
    LET n == summary.notification
        st == summary.stats
        idx == 1..Len(items)
        urgent == {i \in idx : items[i].days_left <= 1}
        soon == {i \in idx : 1 < items[i].days_left /\ items[i].days_left <= 3}
        fresh == {i \in idx : items[i].days_left > 3}
    IN /\ n.summary.total = Len(items)
       /\ n.expired.count + n.expiring.count + n.fresh.count = n.summary.total
       /\ n.expired.count = Len(n.expired.items)
       /\ n.expiring.count = Len(n.expiring.items)
       /\ n.fresh.count = Len(n.fresh.items)
       /\ \A i \in idx :
            Occurrences(n.expired.items, items[i].id)
              + Occurrences(n.expiring.items, items[i].id)
              + Occurrences(n.fresh.items, items[i].id) = 1
       /\ st.total = Len(items)
       /\ st.urgent + st.expiringSoon + st.fresh = st.total
       /\ st.urgent = Cardinality(urgent)
       /\ st.expiringSoon = Cardinality(soon)
       /\ st.fresh = Cardinality(fresh)
       /\ urgent \cap soon = {} /\ urgent \cap fresh = {} /\ soon \cap fresh = {}
       /\ urgent \cup soon \cup fresh = idx

C10_Witness ==
  /\ SummarizeCall
  /\ Len(items) = 3
  /\ items[1].days_left = 0 /\ items[2].days_left = 1 /\ items[3].days_left = 5
  /\ summary.notification.expired.count = 1
  /\ summary.notification.expiring.count = 1
  /\ summary.notification.fresh.count = 1
  /\ summary.stats.urgent = 2
  /\ summary.stats.expiringSoon = 0
  /\ summary.stats.fresh = 1

----------------------------------------------------------------------------
(* Pantries of realistic size: a pantry of expired, expiring and fresh     *)
(* items, given by how many of each it holds.                              *)

MaxPantry == 40

(* The days left of the items of each tier, as in the pantry whose items   *)
(* have 0, 2 and 10 days left.                                             *)
TierDays == [expired |-> 0, expiring |-> 2, fresh |-> 10]

TierCollection(e, x, f) ==
  [ i \in 1..(e + x + f) |->
      [ id |-> i,
        days_left |-> IF i <= e THEN TierDays.expired
                      ELSE IF i <= e + x THEN TierDays.expiring
                      ELSE TierDays.fresh ] ]

(* getNotificationData and getPantryStats on a pantry of up to MaxPantry   *)
(* items.                                                                  *)
SummarizeTiers ==
  /\ op = "idle"
  /\ \E e \in 0..MaxPantry : \E x \in 0..(MaxPantry - e) :
       \E f \in 0..(MaxPantry - e - x) :
         LET pantryItems == TierCollection(e, x, f)
         IN /\ op' = "summarize"
            /\ items' = pantryItems
            /\ summary' = [ notification |-> getNotificationData(pantryItems),
                            stats |-> getPantryStats(pantryItems) ]
  /\ UNCHANGED <<arg, ret, daysLeft, card>>
  /\ UNCHANGED notifyVars
  /\ UNCHANGED appVars

NextHealth == SummarizeTiers \/ Summarize \/ Reset

SpecHealth == Init /\ [][NextHealth]_vars

(* C11: the health score is round(100 * freshCount / total), where         *)
(* freshCount is the number of items with days_left > 3; for an empty list *)
(* it is 100 and every count is 0; it is always an integer in 0..100.      *)
C11_HealthScoreExact ==
  SummarizeCall =>
    LET n == summary.notification
        freshCount == Cardinality({i \in 1..Len(items) : items[i].days_left > 3})
    IN /\ n.summary.healthScore \in 0..100
       /\ Len(items) = 0 =>
            /\ n.summary.healthScore = 100
            /\ n.expired.count = 0 /\ n.expiring.count = 0 /\ n.fresh.count = 0
            /\ n.summary.total = 0 /\ n.summary.needsAttention = 0
       /\ Len(items) > 0 =>
            n.summary.healthScore = RoundPercent_Exact(freshCount, Len(items))

C12_IsExpired(item) == item.days_left <= 0

C12_IsExpiring(item) == 0 < item.days_left /\ item.days_left <= 3

C12_IsFresh(item) == item.days_left > 3

C12_Scenario ==
  /\ Len(items) = 3
  /\ items[1].days_left = 0 /\ items[2].days_left = 2 /\ items[3].days_left = 10

(* C12: getNotificationData puts exactly the items with days_left <= 0 in  *)
(* expired, those with 0 < days_left <= 3 in expiring and those with       *)
(* days_left > 3 in fresh; each count is the length of its item list;      *)
(* needsAttention is expired.count + expiring.count; items with 0, 2 and   *)
(* 10 days left give the counts 1, 1, 1 and the health score 33.           *)
C12_BucketsAndCounts ==
  SummarizeCall =>
    LET n == summary.notification
    IN /\ n.expired.items = SelectSeq(items, C12_IsExpired)
       /\ n.expiring.items = SelectSeq(items, C12_IsExpiring)
       /\ n.fresh.items = SelectSeq(items, C12_IsFresh)
       /\ n.expired.count = Len(n.expired.items)
       /\ n.expiring.count = Len(n.expiring.items)
       /\ n.fresh.count = Len(n.fresh.items)
       /\ n.summary.needsAttention = n.expired.count + n.expiring.count
       /\ C12_Scenario =>
            /\ n.expired.count = 1 /\ n.expiring.count = 1 /\ n.fresh.count = 1
            /\ n.summary.healthScore = 33

C12_Witness ==
  /\ SummarizeCall
  /\ C12_Scenario
  /\ summary.notification.expired.count = 1
  /\ summary.notification.expired.items[1].days_left = 0
  /\ summary.notification.summary.needsAttention = 2
  /\ summary.notification.summary.healthScore = 33

----------------------------------------------------------------------------
(* PantryScreen's notification effect and                                  *)
(* NotificationService.scheduleExpiryNotifications.  A call is split at    *)
(* its awaits: each action below is the return of one awaited collaborator *)
(* call together with the code that runs up to the next await.             *)

MaxSnapshots == 2

Item(id, name, d) == [id |-> id, name |-> name, days_left |-> d]

(* The snapshots the subscription may deliver, days left already computed. *)
SnapshotSamples ==
  { <<>>,
    <<Item(1, "rice", 10)>>,
    <<Item(2, "milk", -1), Item(3, "fish", 0), Item(4, "eggs", 2),
      Item(1, "rice", 10)>> }

Trigger(kind, seconds, hour, minute, repeats) ==
  [ kind |-> kind, seconds |-> seconds, hour |-> hour, minute |-> minute,
    repeats |-> repeats ]

(* expiredItems.map((item) => item.name), joined into the body. *)
Names(list) == [i \in 1..Len(list) |-> list[i].name]

(* The three requests of lines 852-910.  count and names are what the body *)
(* states, items is data.items.                                            *)
ExpiredRequest(pantryItems) ==
  LET expiredItems == SelectSeq(pantryItems, IsExpired)
  IN [ type |-> "expired",
       categoryIdentifier |-> "food-expired",
       count |-> Len(expiredItems),
       names |-> Names(expiredItems),
       items |-> expiredItems,
       trigger |-> Trigger("null", 0, 0, 0, FALSE) ]

ExpiringRequest(pantryItems) ==
  LET expiringSoonItems == SelectSeq(pantryItems, IsExpiringSoon)
  IN [ type |-> "expiring",
       categoryIdentifier |-> "food-expiring",
       count |-> Len(expiringSoonItems),
       names |-> Names(expiringSoonItems),
       items |-> expiringSoonItems,
       trigger |-> Trigger("interval", 5, 0, 0, FALSE) ]

ReminderRequest ==
  [ type |-> "daily-reminder",
    categoryIdentifier |-> "daily-reminder",
    count |-> 0,
    names |-> <<>>,
    items |-> <<>>,
    trigger |-> Trigger("daily", 0, 9, 0, TRUE) ]

RequestAt(pc, pantryItems) ==
  IF pc = "expired" THEN ExpiredRequest(pantryItems)
  ELSE IF pc = "expiring" THEN ExpiringRequest(pantryItems)
  ELSE ReminderRequest

(* A call that never raises the alert for the items expiring soon. *)
AfterExpired_SkipExpiring(pantryItems) ==
  IF Len(pantryItems) > 0 THEN "reminder" ELSE "done"

(* The await the call stops at next: the guards of lines 852, 871, 894. *)
AfterExpiring(pantryItems) ==
  IF Len(pantryItems) > 0 THEN "reminder" ELSE "done"

AfterExpired(pantryItems) ==
  IF Len(SelectSeq(pantryItems, IsExpiringSoon)) > 0 THEN "expiring"
  ELSE AfterExpiring(pantryItems)

AfterPermission(pantryItems) ==
  IF Len(SelectSeq(pantryItems, IsExpired)) > 0 THEN "expired"
  ELSE AfterExpired(pantryItems)

AfterRequest(pc, pantryItems) ==
  IF pc = "expired" THEN AfterExpired(pantryItems)
  ELSE IF pc = "expiring" THEN AfterExpiring(pantryItems)
  ELSE "done"

(* scheduleExpiryNotifications(pantryItems) up to its first await, the     *)
(* cancel-all of clearAllNotifications.                                    *)
NewCall(pantryItems) ==
  [ items |-> pantryItems, pc |-> "cancel", hasPermission |-> "unknown",
    cancelThrew |-> FALSE, threw |-> FALSE, made |-> <<>>,
    outcome |-> "pending" ]

(* The call moves on to the await named, or returns. *)
Proceed(call, pc) ==
  [call EXCEPT !.pc = pc,
               !.outcome = IF pc = "done" THEN "resolved" ELSE call.outcome]

(* A catch block that lets the error out of the call. *)
CatchError_Rethrow(call) ==
  [call EXCEPT !.pc = "done", !.outcome = "rejected", !.threw = TRUE]

(* catch (error) { console.error(...) } of lines 912-914. *)
CatchError(call) ==
  [call EXCEPT !.pc = "done", !.outcome = "resolved", !.threw = TRUE]

Finished(call) == call.pc = "done"

(* The subscription delivers a snapshot: setPantryItems, then the effect   *)
(* of lines 68-75.                                                         *)
SnapshotDelivered ==
  /\ snapshots < MaxSnapshots
  /\ \E s \in SnapshotSamples :
       /\ pantry' = s
       /\ snapshots' = snapshots + 1
       /\ IF Len(s) > 0
          THEN /\ notificationData' =
                    [shown |-> TRUE, data |-> getNotificationData(s)]
               /\ dismissed' = FALSE
               /\ calls' = Append(calls, NewCall(s))
          ELSE UNCHANGED <<notificationData, dismissed, calls>>
  /\ UNCHANGED <<permission, scheduled, notificationIds>>
  /\ UNCHANGED harnessVars
  /\ UNCHANGED appVars

(* onDismiss={() => setNotificationData(null)} *)
DismissBanner ==
  /\ notificationData.shown
  /\ notificationData' = NoData
  /\ dismissed' = TRUE
  /\ UNCHANGED <<pantry, snapshots, calls, permission, scheduled,
                 notificationIds>>
  /\ UNCHANGED harnessVars
  /\ UNCHANGED appVars

(* clearAllNotifications: cancelAllScheduledNotificationsAsync returns     *)
(* and notificationIds is cleared, or it throws and the catch only logs;   *)
(* the call goes on to requestPermissions either way.                      *)
CancelAllReturns(i) ==
  /\ calls[i].pc = "cancel"
  /\ \E ok \in BOOLEAN :
       /\ IF ok
          THEN scheduled' = {} /\ notificationIds' = {}
          ELSE UNCHANGED <<scheduled, notificationIds>>
       /\ calls' = [calls EXCEPT ![i] =
                      [Proceed(@, "permission") EXCEPT !.cancelThrew = ~ok]]
  /\ UNCHANGED <<pantry, notificationData, dismissed, snapshots, permission>>
  /\ UNCHANGED harnessVars
  /\ UNCHANGED appVars

(* requestPermissions: the status is granted already or the user answers   *)
(* the request; a throw of the collaborator is caught and gives false.     *)
(* With permission the call goes on to its first request.                  *)
PermissionReturns(i) ==
  /\ calls[i].pc = "permission"
  /\ \E answer \in {"granted", "denied", "throws"} :
       /\ permission = "granted" => answer # "denied"
       /\ permission' = IF answer = "throws" THEN permission ELSE answer
       /\ calls' = [calls EXCEPT ![i] =
            IF answer = "granted"
            THEN [Proceed(@, AfterPermission(@.items))
                    EXCEPT !.hasPermission = "yes"]
            ELSE [Proceed(@, "done")
                    EXCEPT !.hasPermission = "no",
                           !.threw = (answer = "throws")]]
  /\ UNCHANGED <<pantry, notificationData, dismissed, snapshots, scheduled,
                 notificationIds>>
  /\ UNCHANGED harnessVars
  /\ UNCHANGED appVars

(* The handle scheduleNotificationAsync returns: a fresh identifier, here  *)
(* the pair of the call and the request it answers.                        *)
NotificationId(i, pc) == [call |-> i, type |-> pc]

(* scheduleNotificationAsync returns a handle, which is added to           *)
(* notificationIds, or throws into the catch of the call.                  *)
ScheduleReturns(i) ==
  /\ calls[i].pc \in {"expired", "expiring", "reminder"}
  /\ \E ok \in BOOLEAN :
       IF ok
       THEN LET made == [ id |-> NotificationId(i, calls[i].pc),
                          request |-> RequestAt(calls[i].pc, calls[i].items) ]
            IN /\ scheduled' = scheduled \cup {made}
               /\ notificationIds' = notificationIds \cup {made.id}
               /\ calls' = [calls EXCEPT ![i] =
                    [Proceed(@, AfterRequest(@.pc, @.items))
                       EXCEPT !.made = Append(@, made)]]
       ELSE /\ calls' = [calls EXCEPT ![i] = CatchError(@)]
            /\ UNCHANGED <<scheduled, notificationIds>>
  /\ UNCHANGED <<pantry, notificationData, dismissed, snapshots, permission>>
  /\ UNCHANGED harnessVars
  /\ UNCHANGED appVars

(* The collaborator presents a pending one-shot notification (trigger null *)
(* or seconds: 5); the daily reminder repeats and stays pending.           *)
NotificationFires ==
  /\ \E n \in scheduled :
       /\ ~n.request.trigger.repeats
       /\ scheduled' = scheduled \ {n}
  /\ UNCHANGED <<pantry, notificationData, dismissed, snapshots, calls,
                 permission, notificationIds>>
  /\ UNCHANGED harnessVars
  /\ UNCHANGED appVars

NextNotify ==
  \/ SnapshotDelivered
  \/ DismissBanner
  \/ \E i \in 1..Len(calls) : CancelAllReturns(i)
  \/ \E i \in 1..Len(calls) : PermissionReturns(i)
  \/ \E i \in 1..Len(calls) : ScheduleReturns(i)
  \/ NotificationFires

SpecNotify == Init /\ [][NextNotify]_vars

(* Calls one after another: a snapshot arrives only when every call made   *)
(* so far has finished.                                                    *)
SnapshotAfterCalls ==
  /\ \A i \in 1..Len(calls) : Finished(calls[i])
  /\ SnapshotDelivered

NextSequential ==
  \/ SnapshotAfterCalls
  \/ DismissBanner
  \/ \E i \in 1..Len(calls) : CancelAllReturns(i)
  \/ \E i \in 1..Len(calls) : PermissionReturns(i)
  \/ \E i \in 1..Len(calls) : ScheduleReturns(i)
  \/ NotificationFires

SpecSequential == Init /\ [][NextSequential]_vars

(* The service called on its own, with any list, the empty one included. *)
ServiceCalled ==
  /\ snapshots < MaxSnapshots
  /\ \E s \in SnapshotSamples :
       /\ snapshots' = snapshots + 1
       /\ calls' = Append(calls, NewCall(s))
  /\ UNCHANGED <<pantry, notificationData, dismissed, permission, scheduled,
                 notificationIds>>
  /\ UNCHANGED harnessVars
  /\ UNCHANGED appVars

NextService ==
  \/ ServiceCalled
  \/ \E i \in 1..Len(calls) : CancelAllReturns(i)
  \/ \E i \in 1..Len(calls) : PermissionReturns(i)
  \/ \E i \in 1..Len(calls) : ScheduleReturns(i)
  \/ NotificationFires

SpecService == Init /\ [][NextService]_vars

----------------------------------------------------------------------------
(* Properties of the notification scheduling *)

AllFinished == calls # <<>> /\ \A i \in 1..Len(calls) : Finished(calls[i])

NoCollaboratorError ==
  \A i \in 1..Len(calls) : ~calls[i].threw /\ ~calls[i].cancelThrew

Categories == {"expired", "expiring", "daily-reminder"}

ScheduledOf(category) == {n \in scheduled : n.request.type = category}

AtMostOnePerCategory ==
  \A category \in Categories : Cardinality(ScheduledOf(category)) <= 1

(* The handles scheduleNotificationAsync gave to this call. *)
HandlesOf(call) == {call.made[k].id : k \in 1..Len(call.made)}

PermissionThroughout ==
  \A i \in 1..Len(calls) : calls[i].hasPermission = "yes"

(* C13: when calls of scheduleExpiryNotifications overlap at their awaits  *)
(* notifications do not accumulate: once all the calls have finished       *)
(* (permission granted, no collaborator call having failed), at most one   *)
(* notification per category is scheduled and the scheduled ones are those *)
(* of the latest call.                                                     *)
C13_NoAccumulation ==
  (AllFinished /\ NoCollaboratorError /\ PermissionThroughout) =>
    /\ AtMostOnePerCategory
    /\ \A n \in scheduled : n.id.call = Len(calls)

(* C14: when the calls run one after another, after each call completes    *)
(* the only scheduled notifications are the ones scheduled by that call,   *)
(* at most one per category, and notificationIds holds exactly the handles *)
(* of that call.                                                           *)
C14_FullReplace ==
  AllFinished =>
    /\ \A n \in scheduled : n.id.call = Len(calls)
    /\ AtMostOnePerCategory
    /\ notificationIds = HandlesOf(calls[Len(calls)])

MadeBy(call, kind) ==
  {k \in 1..Len(call.made) : call.made[k].request.trigger.kind = kind}

CountIf(b) == IF b THEN 1 ELSE 0

(* C15: with permission granted and no collaborator error, the             *)
(* notifications a call schedules are exactly: one immediate alert         *)
(* (trigger null) naming all items with days_left <= 0 iff there is such   *)
(* an item, one alert delayed by 5 seconds naming all items with           *)
(* 0 < days_left <= 3 iff there is such an item, and one daily repeating   *)
(* reminder at 09:00 iff the list is not empty.                            *)
C15_ExactlyThePlan ==
  \A i \in 1..Len(calls) :
    LET call == calls[i]
        expiredItems == SelectSeq(call.items, C12_IsExpired)
        expiringItems == SelectSeq(call.items, C12_IsExpiring)
    IN (Finished(call) /\ call.hasPermission = "yes" /\ ~call.threw
          /\ ~call.cancelThrew) =>
         /\ Cardinality(MadeBy(call, "null")) = CountIf(Len(expiredItems) > 0)
         /\ Cardinality(MadeBy(call, "interval")) = CountIf(Len(expiringItems) > 0)
         /\ Cardinality(MadeBy(call, "daily")) = CountIf(Len(call.items) > 0)
         /\ Len(call.made) = CountIf(Len(expiredItems) > 0)
                             + CountIf(Len(expiringItems) > 0)
                             + CountIf(Len(call.items) > 0)
         /\ \A k \in MadeBy(call, "null") :
              /\ call.made[k].request.type = "expired"
              /\ call.made[k].request.count = Len(expiredItems)
              /\ call.made[k].request.names
                   = [j \in 1..Len(expiredItems) |-> expiredItems[j].name]
         /\ \A k \in MadeBy(call, "interval") :
              /\ call.made[k].request.type = "expiring"
              /\ call.made[k].request.trigger.seconds = 5
              /\ ~call.made[k].request.trigger.repeats
              /\ call.made[k].request.count = Len(expiringItems)
              /\ call.made[k].request.names
                   = [j \in 1..Len(expiringItems) |-> expiringItems[j].name]
         /\ \A k \in MadeBy(call, "daily") :
              /\ call.made[k].request.type = "daily-reminder"
              /\ call.made[k].request.trigger.hour = 9
              /\ call.made[k].request.trigger.minute = 0
              /\ call.made[k].request.trigger.repeats

C15_Witness ==
  \E i \in 1..Len(calls) : \E j \in 1..Len(calls) :
    /\ Finished(calls[i]) /\ calls[i].hasPermission = "yes"
    /\ ~calls[i].threw /\ ~calls[i].cancelThrew
    /\ Len(calls[i].made) = 3
    /\ calls[i].made[1].request.names = <<"milk", "fish">>
    /\ calls[i].made[2].request.names = <<"eggs">>
    /\ Finished(calls[j]) /\ calls[j].hasPermission = "yes"
    /\ ~calls[j].threw /\ ~calls[j].cancelThrew
    /\ calls[j].items = <<>> /\ calls[j].made = <<>>

(* C16: after every delivery of a snapshot to PantryScreen, an empty one   *)
(* included, getNotificationData and scheduleExpiryNotifications are run   *)
(* on the new collection: the notificationData the screen holds, unless    *)
(* dismissed, is that of the latest snapshot and never that of an earlier  *)
(* one, and once the calls have finished (permission granted, no           *)
(* collaborator error) every scheduled notification is one of the latest   *)
(* snapshot.                                                               *)
C16_FollowsLatestSnapshot ==
  snapshots > 0 =>
    /\ ~dismissed =>
         /\ Len(pantry) > 0 => notificationData.shown
         /\ notificationData.shown =>
              notificationData.data = getNotificationData(pantry)
    /\ (AllFinished /\ NoCollaboratorError /\ PermissionThroughout) =>
         \A n \in scheduled :
           /\ Len(pantry) > 0
           /\ n.request \in {ExpiredRequest(pantry), ExpiringRequest(pantry),
                             ReminderRequest}

(* C17: a call without permission schedules nothing and resolves; a call   *)
(* in which the collaborator threw resolves as well; and no step of a call *)
(* changes the pantry list or the notificationData of the screen.          *)
C17_ErrorsStayInside ==
  /\ [](\A i \in 1..Len(calls) :
          /\ calls[i].outcome # "rejected"
          /\ Finished(calls[i]) => calls[i].outcome = "resolved"
          /\ calls[i].hasPermission = "no" =>
               Finished(calls[i]) /\ calls[i].made = <<>>)
  /\ [][(Len(calls') = Len(calls) /\ calls' # calls) =>
          (pantry' = pantry /\ notificationData' = notificationData)]_vars

C17_Witness ==
  \E i \in 1..Len(calls) : \E j \in 1..Len(calls) :
    /\ Finished(calls[i]) /\ calls[i].hasPermission = "no"
    /\ calls[i].outcome = "resolved" /\ ~calls[i].threw
    /\ Finished(calls[j]) /\ calls[j].hasPermission = "yes" /\ calls[j].threw
    /\ calls[j].outcome = "resolved"
    /\ notificationData = [shown |-> TRUE, data |-> getNotificationData(pantry)]

----------------------------------------------------------------------------
(* GeminiService.analyzeFood: the text of the upstream response, the three *)
(* ways of reading it, and the fallback to the built-in analyses.          *)

StartsAt(s, pat, i) ==
  /\ i >= 1
  /\ i + Len(pat) - 1 <= Len(s)
  /\ SubSeq(s, i, i + Len(pat) - 1) = pat

(* String.prototype.includes *)
Includes(s, pat) == \E i \in 1..(Len(s) + 1) : StartsAt(s, pat, i)

UpperCase ==
  <<"A","B","C","D","E","F","G","H","I","J","K","L","M","N","O","P","Q","R",
    "S","T","U","V","W","X","Y","Z">>

LowerCase ==
  <<"a","b","c","d","e","f","g","h","i","j","k","l","m","n","o","p","q","r",
    "s","t","u","v","w","x","y","z">>

(* String.prototype.toLowerCase *)
ToLowerCase(s) ==
  [ i \in 1..Len(s) |->
      IF \E k \in 1..Len(UpperCase) : UpperCase[k] = s[i]
      THEN LowerCase[CHOOSE k \in 1..Len(UpperCase) : UpperCase[k] = s[i]]
      ELSE s[i] ]

Least(S) == CHOOSE x \in S : \A y \in S : x <= y

(* The first position from i on that holds no white space. *)
RECURSIVE SkipSpace(_, _)
SkipSpace(s, i) ==
  IF i <= Len(s) /\ s[i] \in WhiteSpace THEN SkipSpace(s, i + 1) ELSE i

(* The first position from i on that holds no decimal digit. *)
RECURSIVE SkipDigits(_, _)
SkipDigits(s, i) ==
  IF i <= Len(s) /\ IsDigit(s[i], 10) THEN SkipDigits(s, i + 1) ELSE i

RECURSIVE TrimEnd(_)
TrimEnd(s) ==
  IF s # <<>> /\ s[Len(s)] \in WhiteSpace
  THEN TrimEnd(SubSeq(s, 1, Len(s) - 1)) ELSE s

SampleTexts ==
  [ wholeObject |-> <<"{","\"","f","r","e","s","h","n","e","s","s","\"",":","\"","r","i","p","e","\"",",","\"","d","a","y","s","_","l","e","f","t","\"",":","2",",","\"","c","o","n","f","i","d","e","n","c","e","\"",":","8","8","}">>,
    wholeNull |-> <<"n","u","l","l">>,
    wholeNumber |-> <<"7">>,
    fencedObject |-> <<"H","e","r","e",":","\n",Backtick,Backtick,Backtick,"j","s","o","n","\n","{","\"","f","r","e","s","h","n","e","s","s","\"",":","\"","s","p","o","i","l","e","d","\"",",","\"","d","a","y","s","_","l","e","f","t","\"",":","-","3",",","\"","c","o","n","f","i","d","e","n","c","e","\"",":","2","5","0","}","\n",Backtick,Backtick,Backtick,"\n","D","o","n","e">>,
    fencedBroken |-> <<Backtick,Backtick,Backtick,"j","s","o","n","\n","{","f","r","e","s","h","n","e","s","s",":"," ","r","i","p","e","}","\n",Backtick,Backtick,Backtick>>,
    fenceUnclosed |-> <<Backtick,Backtick,Backtick,"j","s","o","n"," ","{","\"","m","o","l","d","y","\"",":","1","}">>,
    proseMoldy |-> <<"L","o","o","k","s"," ","m","o","l","d","y",","," ","8","5","%"," ","s","u","r","e">>,
    proseRipe |-> <<"R","i","p","e","."," ","G","o","o","d"," ","f","o","r"," ","3"," ","d","a","y","s","."," ","1","2","0","%">>,
    proseEmpty |-> <<>>,
    prosePastPrime |-> <<"P","a","s","t"," ","p","r","i","m","e",","," ","u","s","e"," ","i","n"," ","1"," ","D","a","y">>,
    proseSpoiled |-> <<"S","p","o","i","l","e","d",","," ","d","i","s","c","a","r","d">>,
    proseDigits |-> <<"1","2"," ","a","p","p","l","e","s",","," ","4","d","a","y","s">>,
    recipesObject |-> <<"{","\"","r","e","c","i","p","e","s","\"",":","[","{","\"","i","d","\"",":","7",",","\"","p","r","i","o","r","i","t","y","\"",":","\"","h","i","g","h","\"","}","]","}">>,
    recipesNotArray |-> <<"{","\"","r","e","c","i","p","e","s","\"",":","5","}">>,
    fencedRecipes |-> <<Backtick,Backtick,Backtick,"j","s","o","n","\n","{","\"","r","e","c","i","p","e","s","\"",":","[","]","}","\n",Backtick,Backtick,Backtick>> ]

(* The JSON documents among the sample texts and among the contents of  *)
(* their fenced blocks, each with the value JSON.parse gives for it.      *)
JsonDocs ==
  { [ text |-> <<"{","\"","f","r","e","s","h","n","e","s","s","\"",":","\"","r","i","p","e","\"",",","\"","d","a","y","s","_","l","e","f","t","\"",":","2",",","\"","c","o","n","f","i","d","e","n","c","e","\"",":","8","8","}">>,
      value |-> JsObj([freshness |-> JsStr(<<"r","i","p","e">>), days_left |-> JsNum(2), confidence |-> JsNum(88)]) ],
    [ text |-> <<"{","\"","f","r","e","s","h","n","e","s","s","\"",":","\"","s","p","o","i","l","e","d","\"",",","\"","d","a","y","s","_","l","e","f","t","\"",":","-","3",",","\"","c","o","n","f","i","d","e","n","c","e","\"",":","2","5","0","}">>,
      value |-> JsObj([freshness |-> JsStr(<<"s","p","o","i","l","e","d">>), days_left |-> JsNum(-3), confidence |-> JsNum(250)]) ],
    [ text |-> <<"n","u","l","l">>,
      value |-> JsNull ],
    [ text |-> <<"7">>,
      value |-> JsNum(7) ],
    [ text |-> <<"{","\"","r","e","c","i","p","e","s","\"",":","[","{","\"","i","d","\"",":","7",",","\"","p","r","i","o","r","i","t","y","\"",":","\"","h","i","g","h","\"","}","]","}">>,
      value |-> JsObj([recipes |-> JsArr(<<JsObj([id |-> JsNum(7), priority |-> JsStr(<<"h","i","g","h">>)])>>)]) ],
    [ text |-> <<"{","\"","r","e","c","i","p","e","s","\"",":","5","}">>,
      value |-> JsObj([recipes |-> JsNum(5)]) ],
    [ text |-> <<"{","\"","r","e","c","i","p","e","s","\"",":","[","]","}">>,
      value |-> JsObj([recipes |-> JsArr(<<>>)]) ] }

(* JSON.parse(v): the argument converted to a string, white space around   *)
(* it ignored; a SyntaxError for a text that is no JSON document.          *)
JSONparse(v) ==
  LET text == TrimEnd(TrimStart(JsToString(v)))
      matching == {d \in JsonDocs : d.text = text}
  IN IF matching = {} THEN Thrown
     ELSE Returned((CHOOSE d \in matching : TRUE).value)

NoMatch == [found |-> FALSE, capture |-> <<>>]

(* text.match of the json fence, line 363: the leftmost opening fence,     *)
(* white space skipped, then the shortest capture that white space and a   *)
(* closing fence follow.                                                   *)
FenceMatch(s) ==
  LET opens == {i \in 1..Len(s) : StartsAt(s, Lit.fenceOpen, i)}
      from == SkipSpace(s, Least(opens) + Len(Lit.fenceOpen))
      closes == { q \in from..(Len(s) + 1) :
                    StartsAt(s, Lit.fenceClose, SkipSpace(s, q)) }
  IN IF opens = {} \/ closes = {} THEN NoMatch
     ELSE [found |-> TRUE, capture |-> SubSeq(s, from, Least(closes) - 1)]

(* text.match of digits, white space, "day", line 662: the leftmost run of *)
(* digits that white space and "day" follow, in any letter case.           *)
DayMatch(s) ==
  LET starts == { i \in 1..Len(s) :
                    /\ IsDigit(s[i], 10)
                    /\ StartsAt(ToLowerCase(s), Lit.day,
                                SkipSpace(s, SkipDigits(s, i))) }
  IN IF starts = {} THEN NoMatch
     ELSE [ found |-> TRUE,
            capture |-> SubSeq(s, Least(starts),
                               SkipDigits(s, Least(starts)) - 1) ]

(* text.match of digits and a percent sign, line 684. *)
PercentMatch(s) ==
  LET starts == { i \in 1..Len(s) :
                    /\ IsDigit(s[i], 10)
                    /\ StartsAt(s, <<"%">>, SkipDigits(s, i)) }
  IN IF starts = {} THEN NoMatch
     ELSE [ found |-> TRUE,
            capture |-> SubSeq(s, Least(starts),
                               SkipDigits(s, Least(starts)) - 1) ]

(* An extractFreshness that does not know the keyword "moldy". *)
extractFreshness_NoMoldy(text) ==
  LET lowerText == ToLowerCase(text)
  IN IF Includes(lowerText, Lit.spoiled)
     THEN JsStr(Lit.spoiled)
     ELSE IF Includes(lowerText, Lit.overripe)
             \/ Includes(lowerText, Lit.pastPrime)
     THEN JsStr(Lit.overripe)
     ELSE IF Includes(lowerText, Lit.ripe) \/ Includes(lowerText, Lit.peak)
     THEN JsStr(Lit.ripe)
     ELSE JsStr(Lit.fresh)

extractFreshness(text) ==
  LET lowerText == ToLowerCase(text)
  IN IF Includes(lowerText, Lit.spoiled) \/ Includes(lowerText, Lit.moldy)
     THEN JsStr(Lit.spoiled)
     ELSE IF Includes(lowerText, Lit.overripe)
             \/ Includes(lowerText, Lit.pastPrime)
     THEN JsStr(Lit.overripe)
     ELSE IF Includes(lowerText, Lit.ripe) \/ Includes(lowerText, Lit.peak)
     THEN JsStr(Lit.ripe)
     ELSE JsStr(Lit.fresh)

extractDaysLeft(text, freshness) ==
  LET dayMatch == DayMatch(text)
  IN IF dayMatch.found THEN parseInt(JsStr(dayMatch.capture))
     ELSE IF freshness = JsStr(Lit.spoiled) THEN JsNum(0)
     ELSE IF freshness = JsStr(Lit.overripe) THEN JsNum(1)
     ELSE IF freshness = JsStr(Lit.ripe) THEN JsNum(3)
     ELSE JsNum(5)

extractConfidence(text) ==
  LET confMatch == PercentMatch(text)
  IN IF confMatch.found THEN parseInt(JsStr(confMatch.capture))
     ELSE JsNum(85)

(* text.substring(0, 200) *)
Substring200(text) == SubSeq(text, 1, IF Len(text) < 200 THEN Len(text) ELSE 200)

parseTextResponse(text) ==
  LET freshness == extractFreshness(text)
      safeToConsume ==
        /\ ~Includes(ToLowerCase(text), Lit.notSafe)
        /\ ~Includes(ToLowerCase(text), Lit.discard)
        /\ ~Includes(ToLowerCase(text), Lit.spoiled)
  IN JsObj([ freshness |-> freshness,
             safe_to_consume |-> JsBool(safeToConsume),
             days_left |-> extractDaysLeft(text, freshness),
             confidence |-> extractConfidence(text),
             recommendation |-> JsStr(Substring200(text) \o Lit.ellipsis),
             food_type |-> JsStr(Lit.unknownFood),
             storage_tip |-> JsStr(Lit.storeTip),
             details |-> JsStr(text) ])

MockAnalysis(freshness, safe, days, confidence, advice, food, tip, details) ==
  [ freshness |-> JsStr(freshness),
    safe_to_consume |-> JsBool(safe),
    days_left |-> JsNum(days),
    confidence |-> JsNum(confidence),
    recommendation |-> JsStr(advice),
    food_type |-> JsStr(food),
    storage_tip |-> JsStr(tip),
    details |-> JsStr(details) ]

mockResponses ==
  << MockAnalysis(Lit.fresh, TRUE, 5, 92, Lit.mockRecommendation1,
                  Lit.mockFood1, Lit.mockTip1, Lit.mockDetails1),
     MockAnalysis(Lit.ripe, TRUE, 2, 88, Lit.mockRecommendation2,
                  Lit.mockFood2, Lit.mockTip2, Lit.mockDetails2),
     MockAnalysis(Lit.overripe, TRUE, 1, 85, Lit.mockRecommendation3,
                  Lit.mockFood3, Lit.mockTip3, Lit.mockDetails3),
     MockAnalysis(Lit.spoiled, FALSE, 0, 95, Lit.mockRecommendation4,
                  Lit.mockFood4, Lit.mockTip4, Lit.mockDetails4) >>

(* mockResponses[Math.floor(Math.random() * mockResponses.length)]: pick   *)
(* is the index drawn, from 0.                                             *)
getMockAnalysis(pick) == mockResponses[pick + 1]

(* A catch block of analyzeFood that lets the error out. *)
AnalysisFallback_Rethrow(pick) == Thrown

(* The catch block of analyzeFood, lines 380-386. *)
AnalysisFallback(pick) == Returned(getMockAnalysis(pick))

(* return this.validateAnalysisResult(analysisResult), inside the try. *)
ValidatedOrFallback(parsed, pick) ==
  IF validateAnalysisResult(parsed).threw THEN AnalysisFallback(pick)
  ELSE validateAnalysisResult(parsed)

(* analyzeFood: upstream is the outcome of generateContent, a throw or the *)
(* text of the response (response.text, which may be undefined).           *)
analyzeFood(isConfigured, upstream, pick) ==
  IF ~isConfigured THEN Returned(getMockAnalysis(pick))
  ELSE IF upstream.threw THEN AnalysisFallback(pick)
  ELSE
    LET text == upstream.value
    IN IF ~JSONparse(text).threw
       THEN ValidatedOrFallback(JSONparse(text).value, pick)
       ELSE IF text.t # "string" THEN AnalysisFallback(pick)
       ELSE IF FenceMatch(text.s).found
       THEN (IF JSONparse(JsStr(FenceMatch(text.s).capture)).threw
             THEN AnalysisFallback(pick)
             ELSE ValidatedOrFallback(
                    JSONparse(JsStr(FenceMatch(text.s).capture)).value, pick))
       ELSE ValidatedOrFallback(parseTextResponse(text.s), pick)

(* What generateContent may do: throw, or answer with a text. *)
Upstreams ==
  {Thrown, Returned(JsUndefined)}
    \cup {Returned(JsStr(SampleTexts[k])) : k \in DOMAIN SampleTexts}

AnalyzeFood ==
  /\ op = "idle"
  /\ \E isConfigured \in BOOLEAN : \E upstream \in Upstreams :
       \E pick \in 0..(Len(mockResponses) - 1) :
         /\ op' = "analyzeFood"
         /\ arg' = [ isConfigured |-> isConfigured, upstream |-> upstream,
                     pick |-> pick ]
         /\ ret' = analyzeFood(isConfigured, upstream, pick)
  /\ UNCHANGED <<daysLeft, card, items, summary>>
  /\ UNCHANGED notifyVars
  /\ UNCHANGED appVars

----------------------------------------------------------------------------
(* GeminiService.getRecipes and getMockRecipes *)

IsUrgentIngredient(item) == item.days_left <= 2

IsFreshIngredient(item) == item.days_left > 2

IsSmoothieFruit(item) ==
  \/ Includes(ToLowerCase(item.name), Lit.banana)
  \/ Includes(ToLowerCase(item.name), Lit.berry)
  \/ Includes(ToLowerCase(item.name), Lit.fruit)

(* list.slice(0, n).map((item) => item.name), as an array of strings. *)
FirstNames(list, n) ==
  JsArr([i \in 1..(IF Len(list) < n THEN Len(list) ELSE n) |-> JsStr(list[i].name)])

Strings(list) == JsArr([i \in 1..Len(list) |-> JsStr(list[i])])

MockRecipe(id, name, description, cookTime, ingredients, steps, priority) ==
  [ id |-> JsNum(id),
    name |-> JsStr(name),
    description |-> JsStr(description),
    cookTime |-> JsStr(cookTime),
    difficulty |-> JsStr(Lit.Easy),
    ingredients |-> ingredients,
    instructions |-> Strings(steps),
    priority |-> JsStr(priority) ]

getMockRecipes(pantryItems) ==
  LET urgentItems == SelectSeq(pantryItems, IsUrgentIngredient)
      freshItems == SelectSeq(pantryItems, IsFreshIngredient)
      fruits == SelectSeq(pantryItems, IsSmoothieFruit)
      mockRecipes ==
        << MockRecipe(1, Lit.stirFry, Lit.stirFryDescription, Lit.minutes15,
                      FirstNames(urgentItems, 3), Lit.stirFrySteps, Lit.high),
           MockRecipe(2, Lit.salad, Lit.saladDescription, Lit.minutes10,
                      FirstNames(freshItems, 4), Lit.saladSteps, Lit.medium),
           MockRecipe(3, Lit.smoothie, Lit.smoothieDescription, Lit.minutes5,
                      FirstNames(fruits, Len(fruits)), Lit.smoothieSteps,
                      Lit.high) >>
  IN [ recipes |-> mockRecipes,
       total |-> JsNum(Len(mockRecipes)),
       urgent_items_used |-> JsNum(Len(urgentItems)),
       message |->
         IF Len(urgentItems) > 0
         THEN JsStr(Lit.found \o NumToString(Len(urgentItems)) \o Lit.needUse)
         ELSE JsStr(Lit.allFresh) ]

(* A catch block of getRecipes that lets the error out. *)
RecipesFallback_Rethrow(pantryItems) == Thrown

(* The catch block of getRecipes, lines 470-474. *)
RecipesFallback(pantryItems) == Returned(getMockRecipes(pantryItems))

(* return this.validateRecipesResult(recipesResult), inside the try. *)
ValidatedRecipesOrFallback(recipesResult, pantryItems) ==
  IF validateRecipesResult(recipesResult).threw
  THEN RecipesFallback(pantryItems)
  ELSE validateRecipesResult(recipesResult)

(* The calls of generateContent one invocation makes: the single await of *)
(* line 449, reached when the key is configured.                          *)
GenerateContentCalls(isConfigured) == IF isConfigured THEN 1 ELSE 0

(* getRecipes(pantryItems) for a list of items with a name, a category and *)
(* days left; the prompt built from them has no part in the result.        *)
getRecipes(isConfigured, upstream, pantryItems) ==
  IF ~isConfigured THEN Returned(getMockRecipes(pantryItems))
  ELSE IF upstream.threw THEN RecipesFallback(pantryItems)
  ELSE
    LET text == upstream.value
    IN IF ~JSONparse(text).threw
       THEN ValidatedRecipesOrFallback(JSONparse(text).value, pantryItems)
       ELSE IF text.t # "string" THEN RecipesFallback(pantryItems)
       ELSE IF FenceMatch(text.s).found
       THEN (IF JSONparse(JsStr(FenceMatch(text.s).capture)).threw
             THEN RecipesFallback(pantryItems)
             ELSE ValidatedRecipesOrFallback(
                    JSONparse(JsStr(FenceMatch(text.s).capture)).value,
                    pantryItems))
       ELSE RecipesFallback(pantryItems)

(* The pantry lists getRecipes is given; with no argument the default      *)
(* parameter makes it the empty list.                                      *)
RecipePantries ==
  { <<>>,
    << [name |-> <<"C","h","i","c","k","e","n"," ","b","r","e","a","s","t">>, category |-> <<"m","e","a","t">>, days_left |-> 3],
       [name |-> <<"B","r","o","c","c","o","l","i">>, category |-> <<"v","e","g","e","t","a","b","l","e">>, days_left |-> 2],
       [name |-> <<"R","i","c","e">>, category |-> <<"g","r","a","i","n">>, days_left |-> 30] >>,
    << [name |-> <<"B","a","n","a","n","a">>, category |-> <<"F","r","u","i","t","s">>, days_left |-> 1],
       [name |-> <<"M","i","l","k">>, category |-> <<"D","a","i","r","y">>, days_left |-> 0],
       [name |-> <<"B","l","u","e","b","e","r","r","y">>, category |-> <<"F","r","u","i","t","s">>, days_left |-> 5],
       [name |-> <<"E","g","g","s">>, category |-> <<"D","a","i","r","y">>, days_left |-> 2],
       [name |-> <<"K","a","l","e">>, category |-> <<"V","e","g","e","t","a","b","l","e","s">>, days_left |-> 1] >> }

GetRecipes ==
  /\ op = "idle"
  /\ \E isConfigured \in BOOLEAN : \E upstream \in Upstreams :
       \E pantryItems \in RecipePantries :
         /\ op' = "getRecipes"
         /\ arg' = [ isConfigured |-> isConfigured, upstream |-> upstream,
                     pantryItems |-> pantryItems ]
         /\ ret' = [ threw |-> getRecipes(isConfigured, upstream, pantryItems).threw,
                     value |-> getRecipes(isConfigured, upstream, pantryItems).value,
                     generateContentCalls |-> GenerateContentCalls(isConfigured) ]
  /\ UNCHANGED <<daysLeft, card, items, summary>>
  /\ UNCHANGED notifyVars
  /\ UNCHANGED appVars

NextGemini == AnalyzeFood \/ GetRecipes \/ Reset

SpecGemini == Init /\ [][NextGemini]_vars

----------------------------------------------------------------------------
(* Properties of analyzeFood and getRecipes *)

AnalyzeFoodCall == op = "analyzeFood"

(* The response came and its text is a string. *)
TextAnswered == arg.isConfigured /\ ~arg.upstream.threw /\ arg.upstream.value.t = "string"

WholeIsJson == ~JSONparse(arg.upstream.value).threw

FenceFound == FenceMatch(arg.upstream.value.s).found

FencedJson == JSONparse(JsStr(FenceMatch(arg.upstream.value.s).capture))

(* C18: analyzeFood reads the text as JSON, then the contents of a         *)
(* json-fenced block as JSON, then by the keyword heuristic; whenever the  *)
(* text yields no parseable JSON the value returned is                     *)
(* validateAnalysisResult(parseTextResponse(text)), not a mock and not an  *)
(* error.                                                                  *)
C18_HeuristicWhenNoJson ==
  (AnalyzeFoodCall /\ TextAnswered) =>
    /\ (WholeIsJson /\ ~IsNullish(JSONparse(arg.upstream.value).value)) =>
         ret = validateAnalysisResult(JSONparse(arg.upstream.value).value)
    /\ (~WholeIsJson /\ FenceFound /\ ~FencedJson.threw
          /\ ~IsNullish(FencedJson.value)) =>
         ret = validateAnalysisResult(FencedJson.value)
    /\ (~WholeIsJson /\ (FenceFound => FencedJson.threw)) =>
         ret = validateAnalysisResult(parseTextResponse(arg.upstream.value.s))

(* A step after the upstream call throws. *)
AnalysisStepThrows ==
  \/ arg.upstream.value.t # "string" /\ ~WholeIsJson
  \/ WholeIsJson /\ IsNullish(JSONparse(arg.upstream.value).value)
  \/ /\ arg.upstream.value.t = "string" /\ ~WholeIsJson /\ FenceFound
     /\ (FencedJson.threw \/ IsNullish(FencedJson.value))

MockAnalyses == {mockResponses[k] : k \in 1..Len(mockResponses)}

(* C19: analyzeFood never rejects; when the key is not configured, or the  *)
(* upstream call or a later step throws, it resolves with one of the       *)
(* built-in mock analyses; every value it resolves with has freshness in   *)
(* {fresh, ripe, overripe, spoiled}, days_left >= 0 and confidence in      *)
(* 0..100.                                                                 *)
C19_AnalyzeFoodAlwaysResolves ==
  AnalyzeFoodCall =>
    /\ ~ret.threw
    /\ ret.value.freshness \in FreshnessSet
    /\ ret.value.days_left.t = "number" /\ ret.value.days_left.n >= 0
    /\ ret.value.confidence.t = "number" /\ ret.value.confidence.n \in 0..100
    /\ (~arg.isConfigured \/ arg.upstream.threw \/ AnalysisStepThrows) =>
         ret.value \in MockAnalyses

C19_Witness ==
  /\ AnalyzeFoodCall
  /\ arg.isConfigured /\ ~arg.upstream.threw
  /\ arg.upstream.value = JsStr(SampleTexts.wholeNull)
  /\ ~ret.threw
  /\ ret.value.food_type = JsStr(<<"B", "r", "e", "a", "d">>)
  /\ ret.value.days_left = JsNum(0)
  /\ ret.value.confidence = JsNum(95)

GetRecipesCall == op = "getRecipes"

(* An error is raised during the invocation: by generateContent, by        *)
(* JSON.parse or match on the text, by the throw for a text with no JSON,  *)
(* or by validateRecipesResult.                                            *)
RecipesErrorRaised ==
  /\ arg.isConfigured
  /\ \/ arg.upstream.threw
     \/ ~WholeIsJson /\ arg.upstream.value.t # "string"
     \/ WholeIsJson /\ validateRecipesResult(JSONparse(arg.upstream.value).value).threw
     \/ /\ ~WholeIsJson /\ arg.upstream.value.t = "string"
        /\ (FenceFound => (FencedJson.threw
                            \/ validateRecipesResult(FencedJson.value).threw))

(* C20: getRecipes makes at most one generateContent call per invocation   *)
(* and, on any error raised during the invocation, resolves with the mock  *)
(* recipe batch built from the given pantry items instead of rejecting.    *)
C20_OneCallThenMock ==
  GetRecipesCall =>
    /\ ret.generateContentCalls <= 1
    /\ ~ret.threw
    /\ RecipesErrorRaised => ret.value = getMockRecipes(arg.pantryItems)

C20_Witness ==
  /\ GetRecipesCall
  /\ arg.isConfigured /\ ~arg.upstream.threw
  /\ arg.upstream.value = JsStr(SampleTexts.recipesNotArray)
  /\ Len(arg.pantryItems) = 5
  /\ ret.generateContentCalls = 1
  /\ ~ret.threw
  /\ Len(ret.value.recipes) = 3
  /\ ret.value.urgent_items_used = JsNum(4)
  /\ Len(ret.value.recipes[1].ingredients.a) = 3
  /\ ret.value.recipes[3].ingredients.a
       = <<JsStr(<<"B","a","n","a","n","a">>),
           JsStr(<<"B","l","u","e","b","e","r","r","y">>)>>

----------------------------------------------------------------------------
(* GeminiService.parseTextResponse on its own: the keyword heuristic applied *)
(* to texts put together from the words and patterns it looks for.          *)

MaxParts == 3

TextParts ==
  << <<"m","o","l","d","y">>,
     <<"M","o","l","d","y">>,
     <<"s","p","o","i","l","e","d">>,
     <<"8","5","%">>,
     <<"5","0","%">>,
     <<"1">>,
     <<" ","2"," ","d","a","y","s">>,
     <<"d","a","y">>,
     <<" ">>,
     <<"d","i","s","c","a","r","d">>,
     <<"n","o","t"," ","s","a","f","e">>,
     <<"p","a","s","t"," ","p","r","i","m","e">> >>

RECURSIVE Concat(_)
Concat(list) == IF list = <<>> THEN <<>> ELSE Head(list) \o Concat(Tail(list))

ParseTextResponse ==
  /\ op = "idle"
  /\ \E n \in 0..MaxParts : \E ix \in [1..n -> 1..Len(TextParts)] :
       LET text == Concat([k \in 1..n |-> TextParts[ix[k]]])
       IN /\ op' = "parseTextResponse"
          /\ arg' = JsStr(text)
          /\ ret' = Returned(parseTextResponse(text))
  /\ UNCHANGED <<daysLeft, card, items, summary>>
  /\ UNCHANGED notifyVars
  /\ UNCHANGED appVars

NextHeuristic == ParseTextResponse \/ Reset

SpecHeuristic == Init /\ [][NextHeuristic]_vars

ParseTextCall == op = "parseTextResponse"

(* A digit that white space and "day" follow, in any letter case. *)
HasDayPattern(s) ==
  \E i \in 1..Len(s) :
    IsDigit(s[i], 10) /\ StartsAt(ToLowerCase(s), Lit.day, SkipSpace(s, i + 1))

(* The first run of digits of s that a percent sign ends is "85". *)
FirstPercentIs85(s) ==
  \E i \in 1..Len(s) :
    /\ StartsAt(s, <<"8","5","%">>, i)
    /\ (i = 1 \/ ~IsDigit(s[i - 1], 10))
    /\ \A j \in 1..(i - 1) : ~(IsDigit(s[j], 10) /\ s[j + 1] = "%")

C28_SpoiledIsUnsafe ==
  ParseTextCall =>
    (ret.value.f.freshness = JsStr(Lit.spoiled) =>
       ret.value.f.safe_to_consume = JsBool(FALSE))

(* The batch returned is the one getMockRecipes builds from the list. *)
MockBatchReturned ==
  GetRecipesCall /\ ~ret.threw /\ ret.value = getMockRecipes(arg.pantryItems)

(* C25: in the batch built by getMockRecipes(items), a recipe has priority  *)
(* high only if its ingredients include at least one pantry item with      *)
(* days_left <= 2, and every ingredient of every recipe is the name of an   *)
(* item of the given pantry list.                                           *)
C25_HighMeansUrgentIngredient ==
  MockBatchReturned =>
    \A r \in 1..Len(ret.value.recipes) :
      LET recipe == ret.value.recipes[r]
          names == {recipe.ingredients.a[k].s : k \in 1..Len(recipe.ingredients.a)}
          pantryItems == {arg.pantryItems[k] : k \in 1..Len(arg.pantryItems)}
      IN /\ recipe.priority = JsStr(Lit.high) =>
              \E item \in pantryItems : item.name \in names /\ item.days_left <= 2
         /\ \A name \in names : \E item \in pantryItems : item.name = name

----------------------------------------------------------------------------
(* FoodScannerScreen: capturing an image, analyzeImage and resetScanner.    *)
(* The camera permission is granted (without it the screen shows nothing   *)
(* to press). A capture that fails or is cancelled changes nothing.        *)

MaxCaptures == 3

(* setShowCamera(true), the "Take Photo" button, shown when there is no  *)
(* captured image.                                                        *)
OpenCamera ==
  /\ ~showCamera
  /\ capturedImage = 0
  /\ showCamera' = TRUE
  /\ UNCHANGED <<capturedImage, analysisResult, isAnalyzing, analyses>>
  /\ UNCHANGED <<harnessVars, notifyVars, storeVars, recipesVars>>

(* The cancel button of the camera view. *)
CloseCamera ==
  /\ showCamera
  /\ showCamera' = FALSE
  /\ UNCHANGED <<capturedImage, analysisResult, isAnalyzing, analyses>>
  /\ UNCHANGED <<harnessVars, notifyVars, storeVars, recipesVars>>

(* setCapturedImage(uri) followed by analyzeImage(base64) up to its await: *)
(* setIsAnalyzing(true), setAnalysisResult(null), analyzeFood started.     *)
analyzeImage ==
  /\ capturedImage' = Len(analyses) + 1
  /\ isAnalyzing' = TRUE
  /\ analysisResult' = 0
  /\ analyses' = Append(analyses, "pending")

takePicture ==
  /\ showCamera
  /\ Len(analyses) < MaxCaptures
  /\ showCamera' = FALSE
  /\ analyzeImage
  /\ UNCHANGED <<harnessVars, notifyVars, storeVars, recipesVars>>

(* "Choose from Gallery", shown when there is no captured image. *)
pickImage ==
  /\ ~showCamera
  /\ capturedImage = 0
  /\ Len(analyses) < MaxCaptures
  /\ analyzeImage
  /\ UNCHANGED showCamera
  /\ UNCHANGED <<harnessVars, notifyVars, storeVars, recipesVars>>

(* The rest of analyzeImage, after the await: the request i settles. *)
AnalysisSettles(i) ==
  /\ analyses[i] = "pending"
  /\ \E outcome \in {"resolved", "rejected"} :
       /\ analyses' = [analyses EXCEPT ![i] = outcome]
       /\ analysisResult' = IF outcome = "resolved" THEN i ELSE analysisResult
  /\ isAnalyzing' = FALSE
  /\ UNCHANGED <<showCamera, capturedImage>>
  /\ UNCHANGED <<harnessVars, notifyVars, storeVars, recipesVars>>

(* "Retake Photo", shown with the captured image, and the buttons of the *)
(* alert of addToPantry.                                                   *)
resetScanner ==
  /\ ~showCamera
  /\ capturedImage # 0
  /\ capturedImage' = 0
  /\ analysisResult' = 0
  /\ showCamera' = FALSE
  /\ UNCHANGED <<isAnalyzing, analyses>>
  /\ UNCHANGED <<harnessVars, notifyVars, storeVars, recipesVars>>

NextScanner ==
  \/ OpenCamera
  \/ CloseCamera
  \/ takePicture
  \/ pickImage
  \/ \E i \in 1..Len(analyses) : AnalysisSettles(i)
  \/ resetScanner

SpecScanner == Init /\ [][NextScanner]_vars

(* The "Analysis Results" section is rendered. *)
ResultDisplayed == ~showCamera /\ analysisResult # 0 /\ ~isAnalyzing

(* C22: whenever an analysis result is displayed it was produced from the  *)
(* currently captured image; after resetScanner no result is displayed     *)
(* until a new image has been analysed (a request that resolves after the  *)
(* user has left its scan is ignored).                                     *)
C22_ResultOfCurrentImage ==
  ResultDisplayed => analysisResult = capturedImage

----------------------------------------------------------------------------
(* PantryService.addItem, updateItem, deleteItem and seedDemoData over the  *)
(* document store, and the days left PantryScreen recomputes on each read. *)
(* An item keeps the two fields the dates depend on, days_left and         *)
(* expiryDate; a date is a value tagged "date" with its time in n.         *)

MaxDocs == 1

MaxClockDays == 2

(* 24 * 60 * 60 * 1000, one day in milliseconds *)
DayMs == 24 * 60 * 60 * 1000

JsDate(ms) == [Js("date") EXCEPT !.n = ms]

(* Math.ceil(a / b) for integers a and b > 0 *)
MathCeilDiv(a, b) == -((-a) \div b)

(* The days left PantryScreen computes for a document read at time t. *)
RecomputedDaysLeft(expiryDate, t) == MathCeilDiv(expiryDate.n - t, DayMs)

(* item.days_left !== undefined && item.days_left !== null ? ... : 7 *)
DaysLeftOr7(days_left) == IF IsNullish(days_left) THEN JsNum(7) ELSE days_left

(* An addItem whose default of days_left is taken with "||". *)
itemData_ZeroDefault(item, t) ==
  [ days_left |-> OrElse(item.days_left, JsNum(7)),
    addedDate |-> JsDate(t),
    expiryDate |->
      IF Truthy(item.expiryDate) THEN item.expiryDate
      ELSE JsDate(t + OrElse(item.days_left, JsNum(7)).n * DayMs) ]

(* The document addItem builds at time t. *)
itemData(item, t) ==
  [ days_left |-> DaysLeftOr7(item.days_left),
    addedDate |-> JsDate(t),
    expiryDate |->
      IF Truthy(item.expiryDate) THEN item.expiryDate
      ELSE JsDate(t + DaysLeftOr7(item.days_left).n * DayMs) ]

(* The item FoodScannerScreen.addToPantry builds at time t from the        *)
(* days_left of an analysis result.                                        *)
addToPantry(days_left, t) ==
  LET days == DaysLeftOr7(days_left).n
  IN [ days_left |-> JsNum(days),
       expiryDate |->
         IF days <= 0
         THEN JsDate(t - (IF days < 0 THEN -days ELSE days) * DayMs)
         ELSE JsDate(t + days * DayMs) ]

(* What the callers pass to addItem at time t: items with and without a    *)
(* days_left and an expiryDate, and the items of addToPantry.              *)
ItemsToAdd(t) ==
  { [days_left |-> d, expiryDate |-> e] :
      d \in {JsUndefined, JsNull, JsNum(0), JsNum(1), JsNum(3), JsNum(-2)},
      e \in {JsUndefined, JsDate(t + 2 * DayMs)} }
    \cup {addToPantry(d, t) : d \in {JsUndefined, JsNum(0), JsNum(2)}}

(* The errors the store rejects a write with. *)
StoreErrors == {"unavailable", "permission-denied"}

(* The outcome of a service call: threw and value as the caller sees them, *)
(* attempts the writes the call sent to the store, rejected the error the  *)
(* store rejected a write with ("none" when it rejected none).             *)
ServiceResult(threw, value, attempts, rejected) ==
  [threw |-> threw, value |-> value, attempts |-> attempts, rejected |-> rejected]

(* The id the store gives a new document. *)
NewId(stored) ==
  IF stored = <<>> THEN 1
  ELSE 1 + (CHOOSE m \in {stored[k].id : k \in 1..Len(stored)} :
              \A k \in 1..Len(stored) : stored[k].id <= m)

(* addDoc accepted: the document as the store keeps it. *)
Stored(stored, data) ==
  [ id |-> NewId(stored), days_left |-> data.days_left,
    addedDate |-> data.addedDate, expiryDate |-> data.expiryDate,
    updatedDate |-> JsUndefined ]

AddItem ==
  /\ op = "idle"
  /\ Len(docs) < MaxDocs
  /\ \E item \in ItemsToAdd(now) :
       /\ op' = "addItem"
       /\ arg' = item
       /\ \/ /\ docs' = Append(docs, Stored(docs, itemData(item, now)))
             /\ ret' = ServiceResult(FALSE, JsNum(NewId(docs)), 1, "none")
          \/ \E e \in StoreErrors :
               /\ docs' = docs
               /\ ret' = ServiceResult(TRUE, e, 1, e)
  /\ UNCHANGED <<daysLeft, card, items, summary, now>>
  /\ UNCHANGED <<notifyVars, scannerVars, recipesVars>>

(* updateItem(itemId, updates) with updates = {days_left: 1} *)
UpdateItem ==
  /\ op = "idle"
  /\ \E k \in 1..Len(docs) :
       /\ op' = "updateItem"
       /\ arg' = JsNum(docs[k].id)
       /\ \/ /\ docs' = [docs EXCEPT ![k].days_left = JsNum(1),
                                       ![k].updatedDate = JsDate(now)]
             /\ ret' = ServiceResult(FALSE, JsUndefined, 1, "none")
          \/ \E e \in StoreErrors :
               /\ docs' = docs
               /\ ret' = ServiceResult(TRUE, e, 1, e)
  /\ UNCHANGED <<daysLeft, card, items, summary, now>>
  /\ UNCHANGED <<notifyVars, scannerVars, recipesVars>>

DeleteItem ==
  /\ op = "idle"
  /\ \E k \in 1..Len(docs) :
       /\ op' = "deleteItem"
       /\ arg' = JsNum(docs[k].id)
       /\ \/ /\ docs' = [j \in 1..(Len(docs) - 1) |->
                            IF j < k THEN docs[j] ELSE docs[j + 1]]
             /\ ret' = ServiceResult(FALSE, JsUndefined, 1, "none")
          \/ \E e \in StoreErrors :
               /\ docs' = docs
               /\ ret' = ServiceResult(TRUE, e, 1, e)
  /\ UNCHANGED <<daysLeft, card, items, summary, now>>
  /\ UNCHANGED <<notifyVars, scannerVars, recipesVars>>

(* days_left of the four demoItems *)
demoItems == <<1, 2, 3, 5>>

(* The documents in the store after the first n demo items were added. *)
RECURSIVE Seeded(_, _)
Seeded(n, t) ==
  IF n = 0 THEN <<>>
  ELSE Append(Seeded(n - 1, t),
              Stored(Seeded(n - 1, t),
                     itemData([days_left |-> JsNum(demoItems[n]),
                               expiryDate |-> JsUndefined], t)))

(* seedDemoData ("call once": on the empty store): the store accepts the   *)
(* first n adds and rejects the next one, or accepts all four.             *)
SeedDemoData ==
  /\ op = "idle"
  /\ docs = <<>>
  /\ op' = "seedDemoData"
  /\ arg' = JsUndefined
  /\ \E n \in 0..Len(demoItems) :
       /\ docs' = Seeded(n, now)
       /\ \/ /\ n = Len(demoItems)
             /\ ret' = ServiceResult(FALSE, JsUndefined, n, "none")
          \/ /\ n < Len(demoItems)
             /\ \E e \in StoreErrors :
                  ret' = ServiceResult(FALSE, JsUndefined, n + 1, e)
  /\ UNCHANGED <<daysLeft, card, items, summary, now>>
  /\ UNCHANGED <<notifyVars, scannerVars, recipesVars>>

(* Time passes: one millisecond from a half-day boundary, or up to the     *)
(* next boundary.                                                          *)
Tick ==
  /\ now < MaxClockDays * DayMs
  /\ \/ now % (DayMs \div 2) = 0 /\ now' = now + 1
     \/ now' = (now \div (DayMs \div 2) + 1) * (DayMs \div 2)
  /\ UNCHANGED <<harnessVars, docs>>
  /\ UNCHANGED <<notifyVars, scannerVars, recipesVars>>

(* The service called again and again. *)
NextStore == AddItem \/ UpdateItem \/ DeleteItem \/ SeedDemoData \/ Reset

SpecStore == Init /\ [][NextStore]_vars

(* One item added at some time, and read as time passes. *)
NextExpiry == AddItem \/ Tick

SpecExpiry == Init /\ [][NextExpiry]_vars

----------------------------------------------------------------------------
(* Properties of the pantry service *)

AddItemCall == op = "addItem"

(* The document the last addItem wrote, while it is in the store. *)
WrittenDocs == {docs[k] : k \in {j \in 1..Len(docs) : docs[j].id = ret.value.n}}

(* C23: every item document that addItem writes to the store has           *)
(* days_left >= 0 (a negative days_left given by the caller is clamped to  *)
(* 0 before storage).                                                      *)
C23_StoredDaysLeftNonNegative ==
  (AddItemCall /\ ~ret.threw) => \A doc \in WrittenDocs : doc.days_left.n >= 0

(* C24: when the store rejects an add, update or delete, addItem,          *)
(* updateItem and deleteItem reject with that same error after exactly one *)
(* attempt, and no persistence failure is swallowed by the service.        *)
C24_RejectionsPropagate ==
  /\ op \in {"addItem", "updateItem", "deleteItem"} =>
       /\ ret.attempts = 1
       /\ ret.rejected # "none" => (ret.threw /\ ret.value = ret.rejected)
  /\ op \in {"addItem", "updateItem", "deleteItem", "seedDemoData"} =>
       (ret.rejected # "none" => ret.threw)

(* The number of days addItem takes for the item it was given. *)
DaysGiven == IF IsNullish(arg.days_left) THEN 7 ELSE arg.days_left.n

(* C26: an item added with days_left = d >= 0 and no explicit expiryDate   *)
(* is stored with expiryDate = creation time + d days (d is 7 only when    *)
(* days_left is undefined or null; 0 is kept as 0); the value PantryScreen *)
(* recomputes, ceil((expiryDate - now) / 1 day), equals d when the item is *)
(* read at creation time, never increases as time advances, and is <= 0    *)
(* once the expiry date has passed.                                        *)
C26_ExpiryFromDaysLeft ==
  /\ [](\A k \in 1..Len(docs) :
          /\ ( /\ AddItemCall /\ ~ret.threw /\ docs[k].id = ret.value.n
               /\ arg.expiryDate = JsUndefined /\ DaysGiven >= 0 ) =>
                /\ docs[k].days_left = JsNum(DaysGiven)
                /\ docs[k].expiryDate = JsDate(docs[k].addedDate.n + DaysGiven * DayMs)
                /\ now = docs[k].addedDate.n =>
                     RecomputedDaysLeft(docs[k].expiryDate, now) = DaysGiven
          /\ now >= docs[k].expiryDate.n =>
                RecomputedDaysLeft(docs[k].expiryDate, now) <= 0)
  /\ [][\A k \in 1..Len(docs) :
          (now' >= now /\ k <= Len(docs') /\ docs'[k] = docs[k]) =>
            RecomputedDaysLeft(docs[k].expiryDate, now')
              <= RecomputedDaysLeft(docs[k].expiryDate, now)]_vars

C26_Witness ==
  /\ AddItemCall /\ ~ret.threw
  /\ arg = [days_left |-> JsNum(0), expiryDate |-> JsUndefined]
  /\ Len(docs) = 1
  /\ docs[1].addedDate = JsDate(1)
  /\ docs[1].expiryDate = JsDate(1)
  /\ now = DayMs + 1
  /\ RecomputedDaysLeft(docs[1].expiryDate, now) = -1

----------------------------------------------------------------------------
(* scheduleExpiryNotifications when the cancel-all fails and when the      *)
(* permission is withdrawn between two calls.                              *)

(* The user turns the notifications of the app off in the settings of the *)
(* device: getPermissionsAsync answers "denied" from then on.              *)
PermissionRevoked ==
  /\ permission = "granted"
  /\ permission' = "denied"
  /\ UNCHANGED <<pantry, notificationData, dismissed, snapshots, calls,
                 scheduled, notificationIds>>
  /\ UNCHANGED harnessVars
  /\ UNCHANGED appVars

(* Calls one after another, on a device whose permission may be withdrawn. *)
NextRevocable ==
  \/ SnapshotAfterCalls
  \/ PermissionRevoked
  \/ \E i \in 1..Len(calls) : CancelAllReturns(i)
  \/ \E i \in 1..Len(calls) : PermissionReturns(i)
  \/ \E i \in 1..Len(calls) : ScheduleReturns(i)
  \/ NotificationFires

SpecRevocable == Init /\ [][NextRevocable]_vars

(* C27: scheduleExpiryNotifications schedules new notifications only after *)
(* the cancel-all has succeeded: a call whose cancel-all failed schedules  *)
(* nothing.                                                                *)
C27_NoSchedulingAfterFailedCancel ==
  \A i \in 1..Len(calls) : calls[i].cancelThrew => calls[i].made = <<>>

(* The latest call has returned at the permission check: permission was    *)
(* denied (requestPermissions returned false without a throw).             *)
AbortedByDenial ==
  /\ calls # <<>>
  /\ Finished(calls[Len(calls)])
  /\ calls[Len(calls)].hasPermission = "no"
  /\ ~calls[Len(calls)].threw

(* C29: after a call that is aborted by permission denial no notification  *)
(* from an earlier call remains scheduled and notificationIds is empty.    *)
C29_DenialLeavesNothing ==
  AbortedByDenial => (scheduled = {} /\ notificationIds = {})

----------------------------------------------------------------------------
(* RecipesScreen: generateRecipes started by the button and, one second    *)
(* after a pull to refresh, by the timer of onRefresh.                     *)

MaxGenerations == 4

(* generateRecipes up to its await: setIsGeneratingRecipes(true) and the  *)
(* getRecipes request started.                                             *)
generateRecipes ==
  /\ isGeneratingRecipes' = TRUE
  /\ generations' = Append(generations, "pending")

(* The "Generate New Recipes" button, disabled while isGeneratingRecipes. *)
PressGenerate ==
  /\ ~isGeneratingRecipes
  /\ Len(generations) + timers < MaxGenerations
  /\ generateRecipes
  /\ UNCHANGED <<refreshing, recipes, timers>>
  /\ UNCHANGED <<harnessVars, notifyVars, scannerVars, storeVars>>

(* Pull to refresh; the control does not start a refresh while refreshing. *)
onRefresh ==
  /\ ~refreshing
  /\ Len(generations) + timers < MaxGenerations
  /\ refreshing' = TRUE
  /\ timers' = timers + 1
  /\ UNCHANGED <<isGeneratingRecipes, recipes, generations>>
  /\ UNCHANGED <<harnessVars, notifyVars, scannerVars, storeVars>>

(* The callback of setTimeout(..., 1000): generateRecipes() and then      *)
(* setRefreshing(false).                                                   *)
RefreshTimerFires ==
  /\ timers > 0
  /\ timers' = timers - 1
  /\ generateRecipes
  /\ refreshing' = FALSE
  /\ UNCHANGED recipes
  /\ UNCHANGED <<harnessVars, notifyVars, scannerVars, storeVars>>

(* The rest of generateRecipes, after the await: setRecipes on success,   *)
(* the error logged on failure, setIsGeneratingRecipes(false) in finally.  *)
GenerationSettles(i) ==
  /\ generations[i] = "pending"
  /\ \E outcome \in {"resolved", "rejected"} :
       /\ generations' = [generations EXCEPT ![i] = outcome]
       /\ recipes' = IF outcome = "resolved" THEN i ELSE recipes
  /\ isGeneratingRecipes' = FALSE
  /\ UNCHANGED <<refreshing, timers>>
  /\ UNCHANGED <<harnessVars, notifyVars, scannerVars, storeVars>>

NextRecipes ==
  \/ PressGenerate
  \/ onRefresh
  \/ RefreshTimerFires
  \/ \E i \in 1..Len(generations) : GenerationSettles(i)

SpecRecipes == Init /\ [][NextRecipes]_vars

PendingGenerations == {i \in 1..Len(generations) : generations[i] = "pending"}

(* C30: for any interleaving of generations started by the button and by   *)
(* pull-to-refresh, isGeneratingRecipes is true whenever at least one      *)
(* getRecipes request is still pending, and false once every started       *)
(* request has settled.                                                    *)
C30_GeneratingWhilePending ==
  /\ PendingGenerations # {} => isGeneratingRecipes
  /\ (generations # <<>> /\ PendingGenerations = {}) => ~isGeneratingRecipes

====
